---------------------------- MODULE Spec2Model ----------------------------
(***************************************************************************)
(* Threefish (go/src/pkg/crypto/threefish/threefish.go): the Cipher        *)
(* facade, the key and tweak schedules and the three unrolled round        *)
(* engines, as a state machine of one client driving one *Cipher; then     *)
(* goroutines calling into two instances on a heap, step by step; then    *)
(* one encrypt call run statement by statement; then the test program      *)
(* (go/src/cmd/test/SkeinTest.go) reading its file of known-answer vectors.*)
(*                                                                         *)
(* A uint64 is a tuple of four 16-bit limbs, least significant first, so   *)
(* that every word keeps its full 64-bit width within TLC's integers.      *)
(* A []byte is a sequence of 0..255; a slice that may be nil is a record   *)
(* [isNil, data].                                                          *)
(***************************************************************************)
EXTENDS Integers, Sequences, FiniteSets, TLC

VARIABLES
  c,      \* the *Cipher the client holds: NilCipher, or the Cipher struct
  call,   \* the API call that has just returned to the client, NoCall between calls
  heap,   \* the Cipher instances the goroutines share, by name
  gs,     \* each goroutine: the call it is in, its position in it, its buffer
  eng,    \* one encrypt call under way: the next statement and the locals
  kat     \* the test program: the KAT file, its scanner and the check of the vectors

vars == <<c, call, heap, gs, eng, kat>>
clientVars == <<c, call>>
goVars == <<heap, gs>>

----------------------------------------------------------------------------
(* 64-bit words *)

W16 == 2^16

Limb == 0..65535
Word64 == Limb \X Limb \X Limb \X Limb

(* uint64(n) for a small literal n *)
Word(n) == <<n, 0, 0, 0>>

Zero64 == Word(0)

(* x ^ y on n-bit values, bit by bit *)
RECURSIVE XorBits(_, _, _)
XorBits(x, y, n) ==
  IF n = 0 THEN 0 ELSE ((x + y) % 2) + 2 * XorBits(x \div 2, y \div 2, n - 1)

(* x ^ y on bytes, tabulated: entry x * 256 + y + 1 *)
XorByteTable ==
  <<>> \o [i \in 1..(2^16) |-> XorBits((i - 1) \div 256, (i - 1) % 256, 8)]

Xor16(x, y) ==
  XorByteTable[(x % 256) * 256 + (y % 256) + 1]
  + 256 * XorByteTable[(x \div 256) * 256 + (y \div 256) + 1]

(* a ^ b *)
Xor64(a, b) ==
  <<Xor16(a[1], b[1]), Xor16(a[2], b[2]), Xor16(a[3], b[3]), Xor16(a[4], b[4])>>

(* a + b stopping at the largest uint64 instead of wrapping *)
Add64Saturating(a, b) ==
  LET s1 == a[1] + b[1]
      s2 == a[2] + b[2] + (s1 \div W16)
      s3 == a[3] + b[3] + (s2 \div W16)
      s4 == a[4] + b[4] + (s3 \div W16)
  IN  IF s4 >= W16 THEN <<W16 - 1, W16 - 1, W16 - 1, W16 - 1>>
      ELSE <<s1 % W16, s2 % W16, s3 % W16, s4 % W16>>

(* a + b on uint64: the carry out of the top limb is dropped *)
Add64(a, b) ==
  LET s1 == a[1] + b[1]
      s2 == a[2] + b[2] + (s1 \div W16)
      s3 == a[3] + b[3] + (s2 \div W16)
      s4 == a[4] + b[4] + (s3 \div W16)
  IN  <<s1 % W16, s2 % W16, s3 % W16, s4 % W16>>

(* a - b on uint64: the borrow out of the top limb is dropped *)
Sub64(a, b) ==
  LET d1 == a[1] - b[1]
      d2 == a[2] - b[2] + (d1 \div W16)
      d3 == a[3] - b[3] + (d2 \div W16)
      d4 == a[4] - b[4] + (d3 \div W16)
  IN  <<d1 % W16, d2 % W16, d3 % W16, d4 % W16>>

(* (x << r) | (x >> (64 - r)), 0 < r < 64 *)
RotL(a, r) ==
  LET q == r \div 16
      m == 2^(r % 16)
      d == W16 \div m
      x0 == a[((4 - q) % 4) + 1]
      x1 == a[((5 - q) % 4) + 1]
      x2 == a[((6 - q) % 4) + 1]
      x3 == a[((7 - q) % 4) + 1]
  IN  <<((x0 * m) % W16) + (x3 \div d), ((x1 * m) % W16) + (x0 \div d),
        ((x2 * m) % W16) + (x1 \div d), ((x3 * m) % W16) + (x2 \div d)>>

(* RotR with the rotation turned left *)
RotRTurnedLeft(a, r) == RotL(a, r)

(* (x >> r) | (x << (64 - r)), 0 < r < 64 *)
RotR(a, r) == RotL(a, 64 - r)

(* binary.LittleEndian.Uint64(s[off : off+8]), off counted from 0 *)
Uint64LE(s, off) ==
  <<s[off + 1] + 256 * s[off + 2], s[off + 3] + 256 * s[off + 4],
    s[off + 5] + 256 * s[off + 6], s[off + 7] + 256 * s[off + 8]>>

(* the 8 bytes binary.BigEndian.PutUint64 would store for w *)
PutUint64BE(w) ==
  <<w[4] \div 256, w[4] % 256, w[3] \div 256, w[3] % 256,
    w[2] \div 256, w[2] % 256, w[1] \div 256, w[1] % 256>>

(* the 8 bytes binary.LittleEndian.PutUint64 stores for w *)
PutUint64LE(w) ==
  <<w[1] % 256, w[1] \div 256, w[2] % 256, w[2] \div 256,
    w[3] % 256, w[3] \div 256, w[4] % 256, w[4] \div 256>>

(* const KEY_SCHEDULE_CONST = uint64(0x1BD11BDAA9FC1A22) *)
KEY_SCHEDULE_CONST == <<6690, 43516, 7130, 7121>>

EXPANDED_TWEAK_SIZE == 3

----------------------------------------------------------------------------
(* Go slices that may be nil *)

NilSlice == [isNil |-> TRUE, data |-> <<>>]
Slice(s) == [isNil |-> FALSE, data |-> s]

Zeros(n) == [i \in 1..n |-> Zero64]

----------------------------------------------------------------------------
(* The key and tweak schedules *)

(* setTweak without the store of expTweak[2] *)
setTweakNoXor(tweak, expTweak) ==
  IF tweak.isNil THEN expTweak
  ELSE LET t == tweak.data
       IN  IF Len(t) = 0 THEN expTweak
           ELSE IF Len(t) = 1 THEN [expTweak EXCEPT ![1] = t[1]]
           ELSE [expTweak EXCEPT ![1] = t[1], ![2] = t[2]]

(* func setTweak(tweak, expTweak []uint64): the expanded tweak afterwards.  A
   non-nil tweak of fewer than two words makes the index tweak[k] panic after
   the stores before it. *)
setTweak(tweak, expTweak) ==
  IF tweak.isNil THEN expTweak
  ELSE LET t == tweak.data
       IN  IF Len(t) = 0 THEN expTweak
           ELSE IF Len(t) = 1 THEN [expTweak EXCEPT ![1] = t[1]]
           ELSE [expTweak EXCEPT ![1] = t[1], ![2] = t[2], ![3] = Xor64(t[1], t[2])]

(* whether setTweak panics on tweak[0] or tweak[1] *)
setTweakPanics(tweak) == (~tweak.isNil) /\ Len(tweak.data) < 2

(* the loop of setKey from index i (counted from 0) with the parity so far:
   <<expKey, parity, i>> when the loop ends or key[i] is out of range *)
RECURSIVE setKeyLoop(_, _, _, _)
setKeyLoop(key, expKey, parity, i) ==
  IF i < Len(expKey) - 1 /\ i < Len(key)
  THEN setKeyLoop(key, [expKey EXCEPT ![i + 1] = key[i + 1]],
                  Xor64(parity, key[i + 1]), i + 1)
  ELSE <<expKey, parity, i>>

(* setKey with the parity taken on from the parity word of the key before *)
setKeyFromOldParity(key, expKey) ==
  LET r == setKeyLoop(key, expKey, expKey[Len(expKey)], 0)
  IN  IF r[3] < Len(expKey) - 1 THEN r[1]
      ELSE [r[1] EXCEPT ![r[3] + 1] = r[2]]

(* setKey without the store of the parity word *)
setKeyNoParity(key, expKey) == setKeyLoop(key, expKey, KEY_SCHEDULE_CONST, 0)[1]

(* func setKey(key, expKey []uint64): the expanded key afterwards.  A key of
   fewer than len(expKey)-1 words makes key[i] panic before the parity word
   is stored. *)
setKey(key, expKey) ==
  LET r == setKeyLoop(key, expKey, KEY_SCHEDULE_CONST, 0)
  IN  IF r[3] < Len(expKey) - 1 THEN r[1]
      ELSE [r[1] EXCEPT ![r[3] + 1] = r[2]]

(* whether setKey panics on a key[i] *)
setKeyPanics(key, expKey) == Len(key) < Len(expKey) - 1

----------------------------------------------------------------------------
(* The unrolled round functions.  encrypt and decrypt of every variant are    *)
(* straight-line code over the locals b0 .. b(N-1), k0 .. kN, t0 .. t2 and    *)
(* tmp; a statement is one of                                                 *)
(*   <<"+=", i, terms>>      b_i += term + term ...                           *)
(*   <<"-=", i, terms>>      b_i -= term + term ...                           *)
(*   <<"rotl^", i, r, j>>    b_i = ((b_i << r) | (b_i >> (64 - r))) ^ b_j      *)
(*   <<"^", i, j>>           tmp = b_i ^ b_j                                  *)
(*   <<"rotr", i, r>>        b_i = (tmp >> r) | (tmp << (64 - r))             *)
(*   <<"out", i, terms>>     output[i] = term + term ...                      *)
(* and a term is <<"b", i>>, <<"k", i>>, <<"t", i>> or the literal <<"n", v>>. *)

(* the locals and the output slice while a function runs *)
Locals == [b : Seq(Word64), tmp : Word64, output : Seq(Word64)]

(* the terms with k_i loaded from tf.expanedKey[i + 1], k_N from tf.expanedKey[0] *)
TermKeyShifted(tf, b, t) ==
  CASE t[1] = "b" -> b[t[2] + 1]
    [] t[1] = "k" -> tf.expanedKey[((t[2] + 1) % Len(tf.expanedKey)) + 1]
    [] t[1] = "t" -> tf.expanedTweak[t[2] + 1]
    [] t[1] = "n" -> Word(t[2])

(* the terms with t_i loaded from tf.expanedTweak[i + 1], t_2 from tf.expanedTweak[0] *)
TermTweakShifted(tf, b, t) ==
  CASE t[1] = "b" -> b[t[2] + 1]
    [] t[1] = "k" -> tf.expanedKey[t[2] + 1]
    [] t[1] = "t" -> tf.expanedTweak[((t[2] + 1) % Len(tf.expanedTweak)) + 1]
    [] t[1] = "n" -> Word(t[2])

(* the value of a term; k_i and t_i were loaded from tf.expanedKey[i] and
   tf.expanedTweak[i] *)
Term(tf, b, t) ==
  CASE t[1] = "b" -> b[t[2] + 1]
    [] t[1] = "k" -> tf.expanedKey[t[2] + 1]
    [] t[1] = "t" -> tf.expanedTweak[t[2] + 1]
    [] t[1] = "n" -> Word(t[2])

(* the sum of the first n terms, left to right *)
RECURSIVE Sum(_, _, _, _)
Sum(tf, b, terms, n) ==
  IF n = 1 THEN Term(tf, b, terms[1])
  ELSE Add64(Sum(tf, b, terms, n - 1), Term(tf, b, terms[n]))

(* Exec with the MIX taking the even word of the pair after its own *)
ExecUnpermuted(tf, s, l) ==
  CASE s[1] = "+=" -> [l EXCEPT !.b[s[2] + 1] = Add64(@, Sum(tf, l.b, s[3], Len(s[3])))]
    [] s[1] = "-=" -> [l EXCEPT !.b[s[2] + 1] = Sub64(@, Sum(tf, l.b, s[3], Len(s[3])))]
    [] s[1] = "rotl^" ->
         [l EXCEPT !.b[s[2] + 1] = Xor64(RotL(@, s[3]), l.b[((s[4] + 2) % Len(l.b)) + 1])]
    [] s[1] = "^" -> [l EXCEPT !.tmp = Xor64(l.b[s[2] + 1], l.b[s[3] + 1])]
    [] s[1] = "rotr" -> [l EXCEPT !.b[s[2] + 1] = RotR(l.tmp, s[3])]
    [] s[1] = "out" -> [l EXCEPT !.output[s[2] + 1] = Sum(tf, l.b, s[3], Len(s[3]))]

(* Exec with the rotation of a MIX turned right *)
ExecRotatingRight(tf, s, l) ==
  CASE s[1] = "+=" -> [l EXCEPT !.b[s[2] + 1] = Add64(@, Sum(tf, l.b, s[3], Len(s[3])))]
    [] s[1] = "-=" -> [l EXCEPT !.b[s[2] + 1] = Sub64(@, Sum(tf, l.b, s[3], Len(s[3])))]
    [] s[1] = "rotl^" -> [l EXCEPT !.b[s[2] + 1] = Xor64(RotL(@, 64 - s[3]), l.b[s[4] + 1])]
    [] s[1] = "^" -> [l EXCEPT !.tmp = Xor64(l.b[s[2] + 1], l.b[s[3] + 1])]
    [] s[1] = "rotr" -> [l EXCEPT !.b[s[2] + 1] = RotR(l.tmp, s[3])]
    [] s[1] = "out" -> [l EXCEPT !.output[s[2] + 1] = Sum(tf, l.b, s[3], Len(s[3]))]

(* Exec with output[i] added to instead of assigned *)
ExecAddingOutput(tf, s, l) ==
  CASE s[1] = "+=" -> [l EXCEPT !.b[s[2] + 1] = Add64(@, Sum(tf, l.b, s[3], Len(s[3])))]
    [] s[1] = "-=" -> [l EXCEPT !.b[s[2] + 1] = Sub64(@, Sum(tf, l.b, s[3], Len(s[3])))]
    [] s[1] = "rotl^" -> [l EXCEPT !.b[s[2] + 1] = Xor64(RotL(@, s[3]), l.b[s[4] + 1])]
    [] s[1] = "^" -> [l EXCEPT !.tmp = Xor64(l.b[s[2] + 1], l.b[s[3] + 1])]
    [] s[1] = "rotr" -> [l EXCEPT !.b[s[2] + 1] = RotR(l.tmp, s[3])]
    [] s[1] = "out" -> [l EXCEPT !.output[s[2] + 1] = Add64(@, Sum(tf, l.b, s[3], Len(s[3])))]

(* one statement *)
Exec(tf, s, l) ==
  CASE s[1] = "+=" -> [l EXCEPT !.b[s[2] + 1] = Add64(@, Sum(tf, l.b, s[3], Len(s[3])))]
    [] s[1] = "-=" -> [l EXCEPT !.b[s[2] + 1] = Sub64(@, Sum(tf, l.b, s[3], Len(s[3])))]
    [] s[1] = "rotl^" -> [l EXCEPT !.b[s[2] + 1] = Xor64(RotL(@, s[3]), l.b[s[4] + 1])]
    [] s[1] = "^" -> [l EXCEPT !.tmp = Xor64(l.b[s[2] + 1], l.b[s[3] + 1])]
    [] s[1] = "rotr" -> [l EXCEPT !.b[s[2] + 1] = RotR(l.tmp, s[3])]
    [] s[1] = "out" -> [l EXCEPT !.output[s[2] + 1] = Sum(tf, l.b, s[3], Len(s[3]))]

(* the statements stmts[i ..] of one source line, in order *)
RECURSIVE ExecFrom(_, _, _, _)
ExecFrom(tf, stmts, i, l) ==
  IF i > Len(stmts) THEN l ELSE ExecFrom(tf, stmts, i + 1, Exec(tf, stmts[i], l))

(* the source lines lines[i ..] of one cycle, in order *)
RECURSIVE LinesFrom(_, _, _, _)
LinesFrom(tf, lines, i, l) ==
  IF i > Len(lines) THEN l
  ELSE LinesFrom(tf, lines, i + 1, [x \in Locals |-> ExecFrom(tf, lines[i], 1, x)][l])

(* the cycles code[j ..] in order *)
RECURSIVE RunFrom(_, _, _, _)
RunFrom(tf, code, j, l) ==
  IF j > Len(code) THEN l
  ELSE RunFrom(tf, code, j + 1, [x \in Locals |-> LinesFrom(tf, code[j], 1, x)][l])

(* a whole function of n words: b_i := input[i], then the statements; the
   output slice afterwards *)
Run(tf, code, n, input, output) ==
  RunFrom(tf, code, 1, [b |-> SubSeq(input, 1, n), tmp |-> Zero64, output |-> output]).output

----------------------------------------------------------------------------
(* Threefish 256 *)

CIPHER_SIZE_256 == 256
CIPHER_QWORDS_256 == CIPHER_SIZE_256 \div 64
EXPANDED_KEY_SIZE_256 == CIPHER_QWORDS_256 + 1

(* new(threefish256): every array zeroed *)
threefish256 ==
  [type |-> CIPHER_SIZE_256,
   expanedTweak |-> Zeros(EXPANDED_TWEAK_SIZE),
   expanedKey |-> Zeros(EXPANDED_KEY_SIZE_256),
   tmpData1 |-> Zeros(CIPHER_QWORDS_256),
   tmpData2 |-> Zeros(CIPHER_QWORDS_256)]

(* the key words read at key[i:i+8] instead of key[i*8:i*8+8] *)
KeyBytesToWordsStrided(key, n) ==
  [i \in 1..(n + 1) |-> IF i <= n THEN Uint64LE(key, i - 1) ELSE Zero64]

(* the key bytes as the words tmpkey[0 .. n-1], tmpkey[n] left zero *)
KeyBytesToWords(key, n) ==
  [i \in 1..(n + 1) |-> IF i <= n THEN Uint64LE(key, (i - 1) * 8) ELSE Zero64]

(* newThreefish256 without the store of KEY_SCHEDULE_CONST *)
newThreefish256NoConst(key, tweak) ==
  LET c0 == threefish256
      c1 == [c0 EXCEPT !.expanedTweak = setTweak(tweak, c0.expanedTweak)]
  IN  IF key.isNil THEN c1
      ELSE [c1 EXCEPT !.expanedKey =
              setKey(KeyBytesToWords(key.data, EXPANDED_KEY_SIZE_256 - 1), c1.expanedKey)]

(* func newThreefish256(key []byte, tweak []uint64) *)
newThreefish256(key, tweak) ==
  LET c0 == threefish256
      c1 == [c0 EXCEPT !.expanedTweak = setTweak(tweak, c0.expanedTweak)]
      c2 == [c1 EXCEPT !.expanedKey[EXPANDED_KEY_SIZE_256] = KEY_SCHEDULE_CONST]
  IN  IF key.isNil THEN c2
      ELSE [c2 EXCEPT !.expanedKey =
              setKey(KeyBytesToWords(key.data, EXPANDED_KEY_SIZE_256 - 1), c2.expanedKey)]

(* func newThreefish256_64(key, tweak []uint64) *)
newThreefish256_64(key, tweak) ==
  LET c0 == threefish256
      c1 == [c0 EXCEPT !.expanedTweak = setTweak(tweak, c0.expanedTweak)]
      c2 == [c1 EXCEPT !.expanedKey[EXPANDED_KEY_SIZE_256] = KEY_SCHEDULE_CONST]
  IN  [c2 EXCEPT !.expanedKey = setKey(key.data, c2.expanedKey)]


(* The statements of func (tf *threefish256) encrypt(input, output []uint64),
   threefish.go lines 269-436, after its loads of b0.., k0.., t0..: one tuple per
   source line, its line number at the end, the lines grouped by key-injection cycle. *)
encrypt256Code ==
  <<
   <<
    <<<<"+=", 1, <<<<"k", 1>>, <<"t", 0>>>>>>, <<"+=", 0, <<<<"b", 1>>, <<"k", 0>>>>>>, <<"rotl^", 1, 14, 0>>>>,   \* 286
    <<<<"+=", 3, <<<<"k", 3>>>>>>, <<"+=", 2, <<<<"b", 3>>, <<"k", 2>>, <<"t", 1>>>>>>, <<"rotl^", 3, 16, 2>>>>,   \* 287
    <<<<"+=", 0, <<<<"b", 3>>>>>>, <<"rotl^", 3, 52, 0>>>>,   \* 288
    <<<<"+=", 2, <<<<"b", 1>>>>>>, <<"rotl^", 1, 57, 2>>>>,   \* 289
    <<<<"+=", 0, <<<<"b", 1>>>>>>, <<"rotl^", 1, 23, 0>>>>,   \* 290
    <<<<"+=", 2, <<<<"b", 3>>>>>>, <<"rotl^", 3, 40, 2>>>>,   \* 291
    <<<<"+=", 0, <<<<"b", 3>>>>>>, <<"rotl^", 3, 5, 0>>>>,   \* 292
    <<<<"+=", 2, <<<<"b", 1>>>>>>, <<"rotl^", 1, 37, 2>>>>   \* 293
   >>,
   <<
    <<<<"+=", 1, <<<<"k", 2>>, <<"t", 1>>>>>>, <<"+=", 0, <<<<"b", 1>>, <<"k", 1>>>>>>, <<"rotl^", 1, 25, 0>>>>,   \* 294
    <<<<"+=", 3, <<<<"k", 4>>, <<"n", 1>>>>>>, <<"+=", 2, <<<<"b", 3>>, <<"k", 3>>, <<"t", 2>>>>>>, <<"rotl^", 3, 33, 2>>>>,   \* 295
    <<<<"+=", 0, <<<<"b", 3>>>>>>, <<"rotl^", 3, 46, 0>>>>,   \* 296
    <<<<"+=", 2, <<<<"b", 1>>>>>>, <<"rotl^", 1, 12, 2>>>>,   \* 297
    <<<<"+=", 0, <<<<"b", 1>>>>>>, <<"rotl^", 1, 58, 0>>>>,   \* 298
    <<<<"+=", 2, <<<<"b", 3>>>>>>, <<"rotl^", 3, 22, 2>>>>,   \* 299
    <<<<"+=", 0, <<<<"b", 3>>>>>>, <<"rotl^", 3, 32, 0>>>>,   \* 300
    <<<<"+=", 2, <<<<"b", 1>>>>>>, <<"rotl^", 1, 32, 2>>>>   \* 301
   >>,
   <<
    <<<<"+=", 1, <<<<"k", 3>>, <<"t", 2>>>>>>, <<"+=", 0, <<<<"b", 1>>, <<"k", 2>>>>>>, <<"rotl^", 1, 14, 0>>>>,   \* 302
    <<<<"+=", 3, <<<<"k", 0>>, <<"n", 2>>>>>>, <<"+=", 2, <<<<"b", 3>>, <<"k", 4>>, <<"t", 0>>>>>>, <<"rotl^", 3, 16, 2>>>>,   \* 303
    <<<<"+=", 0, <<<<"b", 3>>>>>>, <<"rotl^", 3, 52, 0>>>>,   \* 304
    <<<<"+=", 2, <<<<"b", 1>>>>>>, <<"rotl^", 1, 57, 2>>>>,   \* 305
    <<<<"+=", 0, <<<<"b", 1>>>>>>, <<"rotl^", 1, 23, 0>>>>,   \* 306
    <<<<"+=", 2, <<<<"b", 3>>>>>>, <<"rotl^", 3, 40, 2>>>>,   \* 307
    <<<<"+=", 0, <<<<"b", 3>>>>>>, <<"rotl^", 3, 5, 0>>>>,   \* 308
    <<<<"+=", 2, <<<<"b", 1>>>>>>, <<"rotl^", 1, 37, 2>>>>   \* 309
   >>,
   <<
    <<<<"+=", 1, <<<<"k", 4>>, <<"t", 0>>>>>>, <<"+=", 0, <<<<"b", 1>>, <<"k", 3>>>>>>, <<"rotl^", 1, 25, 0>>>>,   \* 310
    <<<<"+=", 3, <<<<"k", 1>>, <<"n", 3>>>>>>, <<"+=", 2, <<<<"b", 3>>, <<"k", 0>>, <<"t", 1>>>>>>, <<"rotl^", 3, 33, 2>>>>,   \* 311
    <<<<"+=", 0, <<<<"b", 3>>>>>>, <<"rotl^", 3, 46, 0>>>>,   \* 312
    <<<<"+=", 2, <<<<"b", 1>>>>>>, <<"rotl^", 1, 12, 2>>>>,   \* 313
    <<<<"+=", 0, <<<<"b", 1>>>>>>, <<"rotl^", 1, 58, 0>>>>,   \* 314
    <<<<"+=", 2, <<<<"b", 3>>>>>>, <<"rotl^", 3, 22, 2>>>>,   \* 315
    <<<<"+=", 0, <<<<"b", 3>>>>>>, <<"rotl^", 3, 32, 0>>>>,   \* 316
    <<<<"+=", 2, <<<<"b", 1>>>>>>, <<"rotl^", 1, 32, 2>>>>   \* 317
   >>,
   <<
    <<<<"+=", 1, <<<<"k", 0>>, <<"t", 1>>>>>>, <<"+=", 0, <<<<"b", 1>>, <<"k", 4>>>>>>, <<"rotl^", 1, 14, 0>>>>,   \* 318
    <<<<"+=", 3, <<<<"k", 2>>, <<"n", 4>>>>>>, <<"+=", 2, <<<<"b", 3>>, <<"k", 1>>, <<"t", 2>>>>>>, <<"rotl^", 3, 16, 2>>>>,   \* 319
    <<<<"+=", 0, <<<<"b", 3>>>>>>, <<"rotl^", 3, 52, 0>>>>,   \* 320
    <<<<"+=", 2, <<<<"b", 1>>>>>>, <<"rotl^", 1, 57, 2>>>>,   \* 321
    <<<<"+=", 0, <<<<"b", 1>>>>>>, <<"rotl^", 1, 23, 0>>>>,   \* 322
    <<<<"+=", 2, <<<<"b", 3>>>>>>, <<"rotl^", 3, 40, 2>>>>,   \* 323
    <<<<"+=", 0, <<<<"b", 3>>>>>>, <<"rotl^", 3, 5, 0>>>>,   \* 324
    <<<<"+=", 2, <<<<"b", 1>>>>>>, <<"rotl^", 1, 37, 2>>>>   \* 325
   >>,
   <<
    <<<<"+=", 1, <<<<"k", 1>>, <<"t", 2>>>>>>, <<"+=", 0, <<<<"b", 1>>, <<"k", 0>>>>>>, <<"rotl^", 1, 25, 0>>>>,   \* 326
    <<<<"+=", 3, <<<<"k", 3>>, <<"n", 5>>>>>>, <<"+=", 2, <<<<"b", 3>>, <<"k", 2>>, <<"t", 0>>>>>>, <<"rotl^", 3, 33, 2>>>>,   \* 327
    <<<<"+=", 0, <<<<"b", 3>>>>>>, <<"rotl^", 3, 46, 0>>>>,   \* 328
    <<<<"+=", 2, <<<<"b", 1>>>>>>, <<"rotl^", 1, 12, 2>>>>,   \* 329
    <<<<"+=", 0, <<<<"b", 1>>>>>>, <<"rotl^", 1, 58, 0>>>>,   \* 330
    <<<<"+=", 2, <<<<"b", 3>>>>>>, <<"rotl^", 3, 22, 2>>>>,   \* 331
    <<<<"+=", 0, <<<<"b", 3>>>>>>, <<"rotl^", 3, 32, 0>>>>,   \* 332
    <<<<"+=", 2, <<<<"b", 1>>>>>>, <<"rotl^", 1, 32, 2>>>>   \* 333
   >>,
   <<
    <<<<"+=", 1, <<<<"k", 2>>, <<"t", 0>>>>>>, <<"+=", 0, <<<<"b", 1>>, <<"k", 1>>>>>>, <<"rotl^", 1, 14, 0>>>>,   \* 334
    <<<<"+=", 3, <<<<"k", 4>>, <<"n", 6>>>>>>, <<"+=", 2, <<<<"b", 3>>, <<"k", 3>>, <<"t", 1>>>>>>, <<"rotl^", 3, 16, 2>>>>,   \* 335
    <<<<"+=", 0, <<<<"b", 3>>>>>>, <<"rotl^", 3, 52, 0>>>>,   \* 336
    <<<<"+=", 2, <<<<"b", 1>>>>>>, <<"rotl^", 1, 57, 2>>>>,   \* 337
    <<<<"+=", 0, <<<<"b", 1>>>>>>, <<"rotl^", 1, 23, 0>>>>,   \* 338
    <<<<"+=", 2, <<<<"b", 3>>>>>>, <<"rotl^", 3, 40, 2>>>>,   \* 339
    <<<<"+=", 0, <<<<"b", 3>>>>>>, <<"rotl^", 3, 5, 0>>>>,   \* 340
    <<<<"+=", 2, <<<<"b", 1>>>>>>, <<"rotl^", 1, 37, 2>>>>   \* 341
   >>,
   <<
    <<<<"+=", 1, <<<<"k", 3>>, <<"t", 1>>>>>>, <<"+=", 0, <<<<"b", 1>>, <<"k", 2>>>>>>, <<"rotl^", 1, 25, 0>>>>,   \* 342
    <<<<"+=", 3, <<<<"k", 0>>, <<"n", 7>>>>>>, <<"+=", 2, <<<<"b", 3>>, <<"k", 4>>, <<"t", 2>>>>>>, <<"rotl^", 3, 33, 2>>>>,   \* 343
    <<<<"+=", 0, <<<<"b", 3>>>>>>, <<"rotl^", 3, 46, 0>>>>,   \* 344
    <<<<"+=", 2, <<<<"b", 1>>>>>>, <<"rotl^", 1, 12, 2>>>>,   \* 345
    <<<<"+=", 0, <<<<"b", 1>>>>>>, <<"rotl^", 1, 58, 0>>>>,   \* 346
    <<<<"+=", 2, <<<<"b", 3>>>>>>, <<"rotl^", 3, 22, 2>>>>,   \* 347
    <<<<"+=", 0, <<<<"b", 3>>>>>>, <<"rotl^", 3, 32, 0>>>>,   \* 348
    <<<<"+=", 2, <<<<"b", 1>>>>>>, <<"rotl^", 1, 32, 2>>>>   \* 349
   >>,
   <<
    <<<<"+=", 1, <<<<"k", 4>>, <<"t", 2>>>>>>, <<"+=", 0, <<<<"b", 1>>, <<"k", 3>>>>>>, <<"rotl^", 1, 14, 0>>>>,   \* 350
    <<<<"+=", 3, <<<<"k", 1>>, <<"n", 8>>>>>>, <<"+=", 2, <<<<"b", 3>>, <<"k", 0>>, <<"t", 0>>>>>>, <<"rotl^", 3, 16, 2>>>>,   \* 351
    <<<<"+=", 0, <<<<"b", 3>>>>>>, <<"rotl^", 3, 52, 0>>>>,   \* 352
    <<<<"+=", 2, <<<<"b", 1>>>>>>, <<"rotl^", 1, 57, 2>>>>,   \* 353
    <<<<"+=", 0, <<<<"b", 1>>>>>>, <<"rotl^", 1, 23, 0>>>>,   \* 354
    <<<<"+=", 2, <<<<"b", 3>>>>>>, <<"rotl^", 3, 40, 2>>>>,   \* 355
    <<<<"+=", 0, <<<<"b", 3>>>>>>, <<"rotl^", 3, 5, 0>>>>,   \* 356
    <<<<"+=", 2, <<<<"b", 1>>>>>>, <<"rotl^", 1, 37, 2>>>>   \* 357
   >>,
   <<
    <<<<"+=", 1, <<<<"k", 0>>, <<"t", 0>>>>>>, <<"+=", 0, <<<<"b", 1>>, <<"k", 4>>>>>>, <<"rotl^", 1, 25, 0>>>>,   \* 358
    <<<<"+=", 3, <<<<"k", 2>>, <<"n", 9>>>>>>, <<"+=", 2, <<<<"b", 3>>, <<"k", 1>>, <<"t", 1>>>>>>, <<"rotl^", 3, 33, 2>>>>,   \* 359
    <<<<"+=", 0, <<<<"b", 3>>>>>>, <<"rotl^", 3, 46, 0>>>>,   \* 360
    <<<<"+=", 2, <<<<"b", 1>>>>>>, <<"rotl^", 1, 12, 2>>>>,   \* 361
    <<<<"+=", 0, <<<<"b", 1>>>>>>, <<"rotl^", 1, 58, 0>>>>,   \* 362
    <<<<"+=", 2, <<<<"b", 3>>>>>>, <<"rotl^", 3, 22, 2>>>>,   \* 363
    <<<<"+=", 0, <<<<"b", 3>>>>>>, <<"rotl^", 3, 32, 0>>>>,   \* 364
    <<<<"+=", 2, <<<<"b", 1>>>>>>, <<"rotl^", 1, 32, 2>>>>   \* 365
   >>,
   <<
    <<<<"+=", 1, <<<<"k", 1>>, <<"t", 1>>>>>>, <<"+=", 0, <<<<"b", 1>>, <<"k", 0>>>>>>, <<"rotl^", 1, 14, 0>>>>,   \* 366
    <<<<"+=", 3, <<<<"k", 3>>, <<"n", 10>>>>>>, <<"+=", 2, <<<<"b", 3>>, <<"k", 2>>, <<"t", 2>>>>>>, <<"rotl^", 3, 16, 2>>>>,   \* 367
    <<<<"+=", 0, <<<<"b", 3>>>>>>, <<"rotl^", 3, 52, 0>>>>,   \* 368
    <<<<"+=", 2, <<<<"b", 1>>>>>>, <<"rotl^", 1, 57, 2>>>>,   \* 369
    <<<<"+=", 0, <<<<"b", 1>>>>>>, <<"rotl^", 1, 23, 0>>>>,   \* 370
    <<<<"+=", 2, <<<<"b", 3>>>>>>, <<"rotl^", 3, 40, 2>>>>,   \* 371
    <<<<"+=", 0, <<<<"b", 3>>>>>>, <<"rotl^", 3, 5, 0>>>>,   \* 372
    <<<<"+=", 2, <<<<"b", 1>>>>>>, <<"rotl^", 1, 37, 2>>>>   \* 373
   >>,
   <<
    <<<<"+=", 1, <<<<"k", 2>>, <<"t", 2>>>>>>, <<"+=", 0, <<<<"b", 1>>, <<"k", 1>>>>>>, <<"rotl^", 1, 25, 0>>>>,   \* 374
    <<<<"+=", 3, <<<<"k", 4>>, <<"n", 11>>>>>>, <<"+=", 2, <<<<"b", 3>>, <<"k", 3>>, <<"t", 0>>>>>>, <<"rotl^", 3, 33, 2>>>>,   \* 375
    <<<<"+=", 0, <<<<"b", 3>>>>>>, <<"rotl^", 3, 46, 0>>>>,   \* 376
    <<<<"+=", 2, <<<<"b", 1>>>>>>, <<"rotl^", 1, 12, 2>>>>,   \* 377
    <<<<"+=", 0, <<<<"b", 1>>>>>>, <<"rotl^", 1, 58, 0>>>>,   \* 378
    <<<<"+=", 2, <<<<"b", 3>>>>>>, <<"rotl^", 3, 22, 2>>>>,   \* 379
    <<<<"+=", 0, <<<<"b", 3>>>>>>, <<"rotl^", 3, 32, 0>>>>,   \* 380
    <<<<"+=", 2, <<<<"b", 1>>>>>>, <<"rotl^", 1, 32, 2>>>>   \* 381
   >>,
   <<
    <<<<"+=", 1, <<<<"k", 3>>, <<"t", 0>>>>>>, <<"+=", 0, <<<<"b", 1>>, <<"k", 2>>>>>>, <<"rotl^", 1, 14, 0>>>>,   \* 382
    <<<<"+=", 3, <<<<"k", 0>>, <<"n", 12>>>>>>, <<"+=", 2, <<<<"b", 3>>, <<"k", 4>>, <<"t", 1>>>>>>, <<"rotl^", 3, 16, 2>>>>,   \* 383
    <<<<"+=", 0, <<<<"b", 3>>>>>>, <<"rotl^", 3, 52, 0>>>>,   \* 384
    <<<<"+=", 2, <<<<"b", 1>>>>>>, <<"rotl^", 1, 57, 2>>>>,   \* 385
    <<<<"+=", 0, <<<<"b", 1>>>>>>, <<"rotl^", 1, 23, 0>>>>,   \* 386
    <<<<"+=", 2, <<<<"b", 3>>>>>>, <<"rotl^", 3, 40, 2>>>>,   \* 387
    <<<<"+=", 0, <<<<"b", 3>>>>>>, <<"rotl^", 3, 5, 0>>>>,   \* 388
    <<<<"+=", 2, <<<<"b", 1>>>>>>, <<"rotl^", 1, 37, 2>>>>   \* 389
   >>,
   <<
    <<<<"+=", 1, <<<<"k", 4>>, <<"t", 1>>>>>>, <<"+=", 0, <<<<"b", 1>>, <<"k", 3>>>>>>, <<"rotl^", 1, 25, 0>>>>,   \* 390
    <<<<"+=", 3, <<<<"k", 1>>, <<"n", 13>>>>>>, <<"+=", 2, <<<<"b", 3>>, <<"k", 0>>, <<"t", 2>>>>>>, <<"rotl^", 3, 33, 2>>>>,   \* 391
    <<<<"+=", 0, <<<<"b", 3>>>>>>, <<"rotl^", 3, 46, 0>>>>,   \* 392
    <<<<"+=", 2, <<<<"b", 1>>>>>>, <<"rotl^", 1, 12, 2>>>>,   \* 393
    <<<<"+=", 0, <<<<"b", 1>>>>>>, <<"rotl^", 1, 58, 0>>>>,   \* 394
    <<<<"+=", 2, <<<<"b", 3>>>>>>, <<"rotl^", 3, 22, 2>>>>,   \* 395
    <<<<"+=", 0, <<<<"b", 3>>>>>>, <<"rotl^", 3, 32, 0>>>>,   \* 396
    <<<<"+=", 2, <<<<"b", 1>>>>>>, <<"rotl^", 1, 32, 2>>>>   \* 397
   >>,
   <<
    <<<<"+=", 1, <<<<"k", 0>>, <<"t", 2>>>>>>, <<"+=", 0, <<<<"b", 1>>, <<"k", 4>>>>>>, <<"rotl^", 1, 14, 0>>>>,   \* 398
    <<<<"+=", 3, <<<<"k", 2>>, <<"n", 14>>>>>>, <<"+=", 2, <<<<"b", 3>>, <<"k", 1>>, <<"t", 0>>>>>>, <<"rotl^", 3, 16, 2>>>>,   \* 399
    <<<<"+=", 0, <<<<"b", 3>>>>>>, <<"rotl^", 3, 52, 0>>>>,   \* 400
    <<<<"+=", 2, <<<<"b", 1>>>>>>, <<"rotl^", 1, 57, 2>>>>,   \* 401
    <<<<"+=", 0, <<<<"b", 1>>>>>>, <<"rotl^", 1, 23, 0>>>>,   \* 402
    <<<<"+=", 2, <<<<"b", 3>>>>>>, <<"rotl^", 3, 40, 2>>>>,   \* 403
    <<<<"+=", 0, <<<<"b", 3>>>>>>, <<"rotl^", 3, 5, 0>>>>,   \* 404
    <<<<"+=", 2, <<<<"b", 1>>>>>>, <<"rotl^", 1, 37, 2>>>>   \* 405
   >>,
   <<
    <<<<"+=", 1, <<<<"k", 1>>, <<"t", 0>>>>>>, <<"+=", 0, <<<<"b", 1>>, <<"k", 0>>>>>>, <<"rotl^", 1, 25, 0>>>>,   \* 406
    <<<<"+=", 3, <<<<"k", 3>>, <<"n", 15>>>>>>, <<"+=", 2, <<<<"b", 3>>, <<"k", 2>>, <<"t", 1>>>>>>, <<"rotl^", 3, 33, 2>>>>,   \* 407
    <<<<"+=", 0, <<<<"b", 3>>>>>>, <<"rotl^", 3, 46, 0>>>>,   \* 408
    <<<<"+=", 2, <<<<"b", 1>>>>>>, <<"rotl^", 1, 12, 2>>>>,   \* 409
    <<<<"+=", 0, <<<<"b", 1>>>>>>, <<"rotl^", 1, 58, 0>>>>,   \* 410
    <<<<"+=", 2, <<<<"b", 3>>>>>>, <<"rotl^", 3, 22, 2>>>>,   \* 411
    <<<<"+=", 0, <<<<"b", 3>>>>>>, <<"rotl^", 3, 32, 0>>>>,   \* 412
    <<<<"+=", 2, <<<<"b", 1>>>>>>, <<"rotl^", 1, 32, 2>>>>   \* 413
   >>,
   <<
    <<<<"+=", 1, <<<<"k", 2>>, <<"t", 1>>>>>>, <<"+=", 0, <<<<"b", 1>>, <<"k", 1>>>>>>, <<"rotl^", 1, 14, 0>>>>,   \* 414
    <<<<"+=", 3, <<<<"k", 4>>, <<"n", 16>>>>>>, <<"+=", 2, <<<<"b", 3>>, <<"k", 3>>, <<"t", 2>>>>>>, <<"rotl^", 3, 16, 2>>>>,   \* 415
    <<<<"+=", 0, <<<<"b", 3>>>>>>, <<"rotl^", 3, 52, 0>>>>,   \* 416
    <<<<"+=", 2, <<<<"b", 1>>>>>>, <<"rotl^", 1, 57, 2>>>>,   \* 417
    <<<<"+=", 0, <<<<"b", 1>>>>>>, <<"rotl^", 1, 23, 0>>>>,   \* 418
    <<<<"+=", 2, <<<<"b", 3>>>>>>, <<"rotl^", 3, 40, 2>>>>,   \* 419
    <<<<"+=", 0, <<<<"b", 3>>>>>>, <<"rotl^", 3, 5, 0>>>>,   \* 420
    <<<<"+=", 2, <<<<"b", 1>>>>>>, <<"rotl^", 1, 37, 2>>>>   \* 421
   >>,
   <<
    <<<<"+=", 1, <<<<"k", 3>>, <<"t", 2>>>>>>, <<"+=", 0, <<<<"b", 1>>, <<"k", 2>>>>>>, <<"rotl^", 1, 25, 0>>>>,   \* 422
    <<<<"+=", 3, <<<<"k", 0>>, <<"n", 17>>>>>>, <<"+=", 2, <<<<"b", 3>>, <<"k", 4>>, <<"t", 0>>>>>>, <<"rotl^", 3, 33, 2>>>>,   \* 423
    <<<<"+=", 0, <<<<"b", 3>>>>>>, <<"rotl^", 3, 46, 0>>>>,   \* 424
    <<<<"+=", 2, <<<<"b", 1>>>>>>, <<"rotl^", 1, 12, 2>>>>,   \* 425
    <<<<"+=", 0, <<<<"b", 1>>>>>>, <<"rotl^", 1, 58, 0>>>>,   \* 426
    <<<<"+=", 2, <<<<"b", 3>>>>>>, <<"rotl^", 3, 22, 2>>>>,   \* 427
    <<<<"+=", 0, <<<<"b", 3>>>>>>, <<"rotl^", 3, 32, 0>>>>,   \* 428
    <<<<"+=", 2, <<<<"b", 1>>>>>>, <<"rotl^", 1, 32, 2>>>>   \* 429
   >>,
   <<
    <<<<"out", 0, <<<<"b", 0>>, <<"k", 3>>>>>>>>,   \* 431
    <<<<"out", 1, <<<<"b", 1>>, <<"k", 4>>, <<"t", 0>>>>>>>>,   \* 432
    <<<<"out", 2, <<<<"b", 2>>, <<"k", 0>>, <<"t", 1>>>>>>>>,   \* 433
    <<<<"out", 3, <<<<"b", 3>>, <<"k", 1>>, <<"n", 18>>>>>>>>   \* 434
   >>
  >>

(* func (tf *threefish256) encrypt(input, output []uint64): output afterwards *)
encrypt256(tf, input, output) ==
  Run(tf, encrypt256Code, CIPHER_QWORDS_256, input, output)

(* The statements of func (tf *threefish256) decrypt(input, output []uint64),
   threefish.go lines 438-610, after its loads of b0.., k0.., t0..: one tuple per
   source line, its line number at the end, the lines grouped by key-injection cycle. *)
decrypt256Code ==
  <<
   <<
    <<<<"-=", 0, <<<<"k", 3>>>>>>>>,   \* 457
    <<<<"-=", 1, <<<<"k", 4>>, <<"t", 0>>>>>>>>,   \* 458
    <<<<"-=", 2, <<<<"k", 0>>, <<"t", 1>>>>>>>>,   \* 459
    <<<<"-=", 3, <<<<"k", 1>>, <<"n", 18>>>>>>>>   \* 460
   >>,
   <<
    <<<<"^", 3, 0>>, <<"rotr", 3, 32>>, <<"-=", 0, <<<<"b", 3>>>>>>>>,   \* 461
    <<<<"^", 1, 2>>, <<"rotr", 1, 32>>, <<"-=", 2, <<<<"b", 1>>>>>>>>,   \* 462
    <<<<"^", 1, 0>>, <<"rotr", 1, 58>>, <<"-=", 0, <<<<"b", 1>>>>>>>>,   \* 463
    <<<<"^", 3, 2>>, <<"rotr", 3, 22>>, <<"-=", 2, <<<<"b", 3>>>>>>>>,   \* 464
    <<<<"^", 3, 0>>, <<"rotr", 3, 46>>, <<"-=", 0, <<<<"b", 3>>>>>>>>,   \* 465
    <<<<"^", 1, 2>>, <<"rotr", 1, 12>>, <<"-=", 2, <<<<"b", 1>>>>>>>>,   \* 466
    <<<<"^", 1, 0>>, <<"rotr", 1, 25>>, <<"-=", 0, <<<<"b", 1>>, <<"k", 2>>>>>>, <<"-=", 1, <<<<"k", 3>>, <<"t", 2>>>>>>>>,   \* 467
    <<<<"^", 3, 2>>, <<"rotr", 3, 33>>, <<"-=", 2, <<<<"b", 3>>, <<"k", 4>>, <<"t", 0>>>>>>, <<"-=", 3, <<<<"k", 0>>, <<"n", 17>>>>>>>>   \* 468
   >>,
   <<
    <<<<"^", 3, 0>>, <<"rotr", 3, 5>>, <<"-=", 0, <<<<"b", 3>>>>>>>>,   \* 469
    <<<<"^", 1, 2>>, <<"rotr", 1, 37>>, <<"-=", 2, <<<<"b", 1>>>>>>>>,   \* 470
    <<<<"^", 1, 0>>, <<"rotr", 1, 23>>, <<"-=", 0, <<<<"b", 1>>>>>>>>,   \* 471
    <<<<"^", 3, 2>>, <<"rotr", 3, 40>>, <<"-=", 2, <<<<"b", 3>>>>>>>>,   \* 472
    <<<<"^", 3, 0>>, <<"rotr", 3, 52>>, <<"-=", 0, <<<<"b", 3>>>>>>>>,   \* 473
    <<<<"^", 1, 2>>, <<"rotr", 1, 57>>, <<"-=", 2, <<<<"b", 1>>>>>>>>,   \* 474
    <<<<"^", 1, 0>>, <<"rotr", 1, 14>>, <<"-=", 0, <<<<"b", 1>>, <<"k", 1>>>>>>, <<"-=", 1, <<<<"k", 2>>, <<"t", 1>>>>>>>>,   \* 475
    <<<<"^", 3, 2>>, <<"rotr", 3, 16>>, <<"-=", 2, <<<<"b", 3>>, <<"k", 3>>, <<"t", 2>>>>>>, <<"-=", 3, <<<<"k", 4>>, <<"n", 16>>>>>>>>   \* 476
   >>,
   <<
    <<<<"^", 3, 0>>, <<"rotr", 3, 32>>, <<"-=", 0, <<<<"b", 3>>>>>>>>,   \* 477
    <<<<"^", 1, 2>>, <<"rotr", 1, 32>>, <<"-=", 2, <<<<"b", 1>>>>>>>>,   \* 478
    <<<<"^", 1, 0>>, <<"rotr", 1, 58>>, <<"-=", 0, <<<<"b", 1>>>>>>>>,   \* 479
    <<<<"^", 3, 2>>, <<"rotr", 3, 22>>, <<"-=", 2, <<<<"b", 3>>>>>>>>,   \* 480
    <<<<"^", 3, 0>>, <<"rotr", 3, 46>>, <<"-=", 0, <<<<"b", 3>>>>>>>>,   \* 481
    <<<<"^", 1, 2>>, <<"rotr", 1, 12>>, <<"-=", 2, <<<<"b", 1>>>>>>>>,   \* 482
    <<<<"^", 1, 0>>, <<"rotr", 1, 25>>, <<"-=", 0, <<<<"b", 1>>, <<"k", 0>>>>>>, <<"-=", 1, <<<<"k", 1>>, <<"t", 0>>>>>>>>,   \* 483
    <<<<"^", 3, 2>>, <<"rotr", 3, 33>>, <<"-=", 2, <<<<"b", 3>>, <<"k", 2>>, <<"t", 1>>>>>>, <<"-=", 3, <<<<"k", 3>>, <<"n", 15>>>>>>>>   \* 484
   >>,
   <<
    <<<<"^", 3, 0>>, <<"rotr", 3, 5>>, <<"-=", 0, <<<<"b", 3>>>>>>>>,   \* 485
    <<<<"^", 1, 2>>, <<"rotr", 1, 37>>, <<"-=", 2, <<<<"b", 1>>>>>>>>,   \* 486
    <<<<"^", 1, 0>>, <<"rotr", 1, 23>>, <<"-=", 0, <<<<"b", 1>>>>>>>>,   \* 487
    <<<<"^", 3, 2>>, <<"rotr", 3, 40>>, <<"-=", 2, <<<<"b", 3>>>>>>>>,   \* 488
    <<<<"^", 3, 0>>, <<"rotr", 3, 52>>, <<"-=", 0, <<<<"b", 3>>>>>>>>,   \* 489
    <<<<"^", 1, 2>>, <<"rotr", 1, 57>>, <<"-=", 2, <<<<"b", 1>>>>>>>>,   \* 490
    <<<<"^", 1, 0>>, <<"rotr", 1, 14>>, <<"-=", 0, <<<<"b", 1>>, <<"k", 4>>>>>>, <<"-=", 1, <<<<"k", 0>>, <<"t", 2>>>>>>>>,   \* 491
    <<<<"^", 3, 2>>, <<"rotr", 3, 16>>, <<"-=", 2, <<<<"b", 3>>, <<"k", 1>>, <<"t", 0>>>>>>, <<"-=", 3, <<<<"k", 2>>, <<"n", 14>>>>>>>>   \* 492
   >>,
   <<
    <<<<"^", 3, 0>>, <<"rotr", 3, 32>>, <<"-=", 0, <<<<"b", 3>>>>>>>>,   \* 493
    <<<<"^", 1, 2>>, <<"rotr", 1, 32>>, <<"-=", 2, <<<<"b", 1>>>>>>>>,   \* 494
    <<<<"^", 1, 0>>, <<"rotr", 1, 58>>, <<"-=", 0, <<<<"b", 1>>>>>>>>,   \* 495
    <<<<"^", 3, 2>>, <<"rotr", 3, 22>>, <<"-=", 2, <<<<"b", 3>>>>>>>>,   \* 496
    <<<<"^", 3, 0>>, <<"rotr", 3, 46>>, <<"-=", 0, <<<<"b", 3>>>>>>>>,   \* 497
    <<<<"^", 1, 2>>, <<"rotr", 1, 12>>, <<"-=", 2, <<<<"b", 1>>>>>>>>,   \* 498
    <<<<"^", 1, 0>>, <<"rotr", 1, 25>>, <<"-=", 0, <<<<"b", 1>>, <<"k", 3>>>>>>, <<"-=", 1, <<<<"k", 4>>, <<"t", 1>>>>>>>>,   \* 499
    <<<<"^", 3, 2>>, <<"rotr", 3, 33>>, <<"-=", 2, <<<<"b", 3>>, <<"k", 0>>, <<"t", 2>>>>>>, <<"-=", 3, <<<<"k", 1>>, <<"n", 13>>>>>>>>   \* 500
   >>,
   <<
    <<<<"^", 3, 0>>, <<"rotr", 3, 5>>, <<"-=", 0, <<<<"b", 3>>>>>>>>,   \* 501
    <<<<"^", 1, 2>>, <<"rotr", 1, 37>>, <<"-=", 2, <<<<"b", 1>>>>>>>>,   \* 502
    <<<<"^", 1, 0>>, <<"rotr", 1, 23>>, <<"-=", 0, <<<<"b", 1>>>>>>>>,   \* 503
    <<<<"^", 3, 2>>, <<"rotr", 3, 40>>, <<"-=", 2, <<<<"b", 3>>>>>>>>,   \* 504
    <<<<"^", 3, 0>>, <<"rotr", 3, 52>>, <<"-=", 0, <<<<"b", 3>>>>>>>>,   \* 505
    <<<<"^", 1, 2>>, <<"rotr", 1, 57>>, <<"-=", 2, <<<<"b", 1>>>>>>>>,   \* 506
    <<<<"^", 1, 0>>, <<"rotr", 1, 14>>, <<"-=", 0, <<<<"b", 1>>, <<"k", 2>>>>>>, <<"-=", 1, <<<<"k", 3>>, <<"t", 0>>>>>>>>,   \* 507
    <<<<"^", 3, 2>>, <<"rotr", 3, 16>>, <<"-=", 2, <<<<"b", 3>>, <<"k", 4>>, <<"t", 1>>>>>>, <<"-=", 3, <<<<"k", 0>>, <<"n", 12>>>>>>>>   \* 508
   >>,
   <<
    <<<<"^", 3, 0>>, <<"rotr", 3, 32>>, <<"-=", 0, <<<<"b", 3>>>>>>>>,   \* 509
    <<<<"^", 1, 2>>, <<"rotr", 1, 32>>, <<"-=", 2, <<<<"b", 1>>>>>>>>,   \* 510
    <<<<"^", 1, 0>>, <<"rotr", 1, 58>>, <<"-=", 0, <<<<"b", 1>>>>>>>>,   \* 511
    <<<<"^", 3, 2>>, <<"rotr", 3, 22>>, <<"-=", 2, <<<<"b", 3>>>>>>>>,   \* 512
    <<<<"^", 3, 0>>, <<"rotr", 3, 46>>, <<"-=", 0, <<<<"b", 3>>>>>>>>,   \* 513
    <<<<"^", 1, 2>>, <<"rotr", 1, 12>>, <<"-=", 2, <<<<"b", 1>>>>>>>>,   \* 514
    <<<<"^", 1, 0>>, <<"rotr", 1, 25>>, <<"-=", 0, <<<<"b", 1>>, <<"k", 1>>>>>>, <<"-=", 1, <<<<"k", 2>>, <<"t", 2>>>>>>>>,   \* 515
    <<<<"^", 3, 2>>, <<"rotr", 3, 33>>, <<"-=", 2, <<<<"b", 3>>, <<"k", 3>>, <<"t", 0>>>>>>, <<"-=", 3, <<<<"k", 4>>, <<"n", 11>>>>>>>>   \* 516
   >>,
   <<
    <<<<"^", 3, 0>>, <<"rotr", 3, 5>>, <<"-=", 0, <<<<"b", 3>>>>>>>>,   \* 517
    <<<<"^", 1, 2>>, <<"rotr", 1, 37>>, <<"-=", 2, <<<<"b", 1>>>>>>>>,   \* 518
    <<<<"^", 1, 0>>, <<"rotr", 1, 23>>, <<"-=", 0, <<<<"b", 1>>>>>>>>,   \* 519
    <<<<"^", 3, 2>>, <<"rotr", 3, 40>>, <<"-=", 2, <<<<"b", 3>>>>>>>>,   \* 520
    <<<<"^", 3, 0>>, <<"rotr", 3, 52>>, <<"-=", 0, <<<<"b", 3>>>>>>>>,   \* 521
    <<<<"^", 1, 2>>, <<"rotr", 1, 57>>, <<"-=", 2, <<<<"b", 1>>>>>>>>,   \* 522
    <<<<"^", 1, 0>>, <<"rotr", 1, 14>>, <<"-=", 0, <<<<"b", 1>>, <<"k", 0>>>>>>, <<"-=", 1, <<<<"k", 1>>, <<"t", 1>>>>>>>>,   \* 523
    <<<<"^", 3, 2>>, <<"rotr", 3, 16>>, <<"-=", 2, <<<<"b", 3>>, <<"k", 2>>, <<"t", 2>>>>>>, <<"-=", 3, <<<<"k", 3>>, <<"n", 10>>>>>>>>   \* 524
   >>,
   <<
    <<<<"^", 3, 0>>, <<"rotr", 3, 32>>, <<"-=", 0, <<<<"b", 3>>>>>>>>,   \* 525
    <<<<"^", 1, 2>>, <<"rotr", 1, 32>>, <<"-=", 2, <<<<"b", 1>>>>>>>>,   \* 526
    <<<<"^", 1, 0>>, <<"rotr", 1, 58>>, <<"-=", 0, <<<<"b", 1>>>>>>>>,   \* 527
    <<<<"^", 3, 2>>, <<"rotr", 3, 22>>, <<"-=", 2, <<<<"b", 3>>>>>>>>,   \* 528
    <<<<"^", 3, 0>>, <<"rotr", 3, 46>>, <<"-=", 0, <<<<"b", 3>>>>>>>>,   \* 529
    <<<<"^", 1, 2>>, <<"rotr", 1, 12>>, <<"-=", 2, <<<<"b", 1>>>>>>>>,   \* 530
    <<<<"^", 1, 0>>, <<"rotr", 1, 25>>, <<"-=", 0, <<<<"b", 1>>, <<"k", 4>>>>>>, <<"-=", 1, <<<<"k", 0>>, <<"t", 0>>>>>>>>,   \* 531
    <<<<"^", 3, 2>>, <<"rotr", 3, 33>>, <<"-=", 2, <<<<"b", 3>>, <<"k", 1>>, <<"t", 1>>>>>>, <<"-=", 3, <<<<"k", 2>>, <<"n", 9>>>>>>>>   \* 532
   >>,
   <<
    <<<<"^", 3, 0>>, <<"rotr", 3, 5>>, <<"-=", 0, <<<<"b", 3>>>>>>>>,   \* 533
    <<<<"^", 1, 2>>, <<"rotr", 1, 37>>, <<"-=", 2, <<<<"b", 1>>>>>>>>,   \* 534
    <<<<"^", 1, 0>>, <<"rotr", 1, 23>>, <<"-=", 0, <<<<"b", 1>>>>>>>>,   \* 535
    <<<<"^", 3, 2>>, <<"rotr", 3, 40>>, <<"-=", 2, <<<<"b", 3>>>>>>>>,   \* 536
    <<<<"^", 3, 0>>, <<"rotr", 3, 52>>, <<"-=", 0, <<<<"b", 3>>>>>>>>,   \* 537
    <<<<"^", 1, 2>>, <<"rotr", 1, 57>>, <<"-=", 2, <<<<"b", 1>>>>>>>>,   \* 538
    <<<<"^", 1, 0>>, <<"rotr", 1, 14>>, <<"-=", 0, <<<<"b", 1>>, <<"k", 3>>>>>>, <<"-=", 1, <<<<"k", 4>>, <<"t", 2>>>>>>>>,   \* 539
    <<<<"^", 3, 2>>, <<"rotr", 3, 16>>, <<"-=", 2, <<<<"b", 3>>, <<"k", 0>>, <<"t", 0>>>>>>, <<"-=", 3, <<<<"k", 1>>, <<"n", 8>>>>>>>>   \* 540
   >>,
   <<
    <<<<"^", 3, 0>>, <<"rotr", 3, 32>>, <<"-=", 0, <<<<"b", 3>>>>>>>>,   \* 541
    <<<<"^", 1, 2>>, <<"rotr", 1, 32>>, <<"-=", 2, <<<<"b", 1>>>>>>>>,   \* 542
    <<<<"^", 1, 0>>, <<"rotr", 1, 58>>, <<"-=", 0, <<<<"b", 1>>>>>>>>,   \* 543
    <<<<"^", 3, 2>>, <<"rotr", 3, 22>>, <<"-=", 2, <<<<"b", 3>>>>>>>>,   \* 544
    <<<<"^", 3, 0>>, <<"rotr", 3, 46>>, <<"-=", 0, <<<<"b", 3>>>>>>>>,   \* 545
    <<<<"^", 1, 2>>, <<"rotr", 1, 12>>, <<"-=", 2, <<<<"b", 1>>>>>>>>,   \* 546
    <<<<"^", 1, 0>>, <<"rotr", 1, 25>>, <<"-=", 0, <<<<"b", 1>>, <<"k", 2>>>>>>, <<"-=", 1, <<<<"k", 3>>, <<"t", 1>>>>>>>>,   \* 547
    <<<<"^", 3, 2>>, <<"rotr", 3, 33>>, <<"-=", 2, <<<<"b", 3>>, <<"k", 4>>, <<"t", 2>>>>>>, <<"-=", 3, <<<<"k", 0>>, <<"n", 7>>>>>>>>   \* 548
   >>,
   <<
    <<<<"^", 3, 0>>, <<"rotr", 3, 5>>, <<"-=", 0, <<<<"b", 3>>>>>>>>,   \* 549
    <<<<"^", 1, 2>>, <<"rotr", 1, 37>>, <<"-=", 2, <<<<"b", 1>>>>>>>>,   \* 550
    <<<<"^", 1, 0>>, <<"rotr", 1, 23>>, <<"-=", 0, <<<<"b", 1>>>>>>>>,   \* 551
    <<<<"^", 3, 2>>, <<"rotr", 3, 40>>, <<"-=", 2, <<<<"b", 3>>>>>>>>,   \* 552
    <<<<"^", 3, 0>>, <<"rotr", 3, 52>>, <<"-=", 0, <<<<"b", 3>>>>>>>>,   \* 553
    <<<<"^", 1, 2>>, <<"rotr", 1, 57>>, <<"-=", 2, <<<<"b", 1>>>>>>>>,   \* 554
    <<<<"^", 1, 0>>, <<"rotr", 1, 14>>, <<"-=", 0, <<<<"b", 1>>, <<"k", 1>>>>>>, <<"-=", 1, <<<<"k", 2>>, <<"t", 0>>>>>>>>,   \* 555
    <<<<"^", 3, 2>>, <<"rotr", 3, 16>>, <<"-=", 2, <<<<"b", 3>>, <<"k", 3>>, <<"t", 1>>>>>>, <<"-=", 3, <<<<"k", 4>>, <<"n", 6>>>>>>>>   \* 556
   >>,
   <<
    <<<<"^", 3, 0>>, <<"rotr", 3, 32>>, <<"-=", 0, <<<<"b", 3>>>>>>>>,   \* 557
    <<<<"^", 1, 2>>, <<"rotr", 1, 32>>, <<"-=", 2, <<<<"b", 1>>>>>>>>,   \* 558
    <<<<"^", 1, 0>>, <<"rotr", 1, 58>>, <<"-=", 0, <<<<"b", 1>>>>>>>>,   \* 559
    <<<<"^", 3, 2>>, <<"rotr", 3, 22>>, <<"-=", 2, <<<<"b", 3>>>>>>>>,   \* 560
    <<<<"^", 3, 0>>, <<"rotr", 3, 46>>, <<"-=", 0, <<<<"b", 3>>>>>>>>,   \* 561
    <<<<"^", 1, 2>>, <<"rotr", 1, 12>>, <<"-=", 2, <<<<"b", 1>>>>>>>>,   \* 562
    <<<<"^", 1, 0>>, <<"rotr", 1, 25>>, <<"-=", 0, <<<<"b", 1>>, <<"k", 0>>>>>>, <<"-=", 1, <<<<"k", 1>>, <<"t", 2>>>>>>>>,   \* 563
    <<<<"^", 3, 2>>, <<"rotr", 3, 33>>, <<"-=", 2, <<<<"b", 3>>, <<"k", 2>>, <<"t", 0>>>>>>, <<"-=", 3, <<<<"k", 3>>, <<"n", 5>>>>>>>>   \* 564
   >>,
   <<
    <<<<"^", 3, 0>>, <<"rotr", 3, 5>>, <<"-=", 0, <<<<"b", 3>>>>>>>>,   \* 565
    <<<<"^", 1, 2>>, <<"rotr", 1, 37>>, <<"-=", 2, <<<<"b", 1>>>>>>>>,   \* 566
    <<<<"^", 1, 0>>, <<"rotr", 1, 23>>, <<"-=", 0, <<<<"b", 1>>>>>>>>,   \* 567
    <<<<"^", 3, 2>>, <<"rotr", 3, 40>>, <<"-=", 2, <<<<"b", 3>>>>>>>>,   \* 568
    <<<<"^", 3, 0>>, <<"rotr", 3, 52>>, <<"-=", 0, <<<<"b", 3>>>>>>>>,   \* 569
    <<<<"^", 1, 2>>, <<"rotr", 1, 57>>, <<"-=", 2, <<<<"b", 1>>>>>>>>,   \* 570
    <<<<"^", 1, 0>>, <<"rotr", 1, 14>>, <<"-=", 0, <<<<"b", 1>>, <<"k", 4>>>>>>, <<"-=", 1, <<<<"k", 0>>, <<"t", 1>>>>>>>>,   \* 571
    <<<<"^", 3, 2>>, <<"rotr", 3, 16>>, <<"-=", 2, <<<<"b", 3>>, <<"k", 1>>, <<"t", 2>>>>>>, <<"-=", 3, <<<<"k", 2>>, <<"n", 4>>>>>>>>   \* 572
   >>,
   <<
    <<<<"^", 3, 0>>, <<"rotr", 3, 32>>, <<"-=", 0, <<<<"b", 3>>>>>>>>,   \* 573
    <<<<"^", 1, 2>>, <<"rotr", 1, 32>>, <<"-=", 2, <<<<"b", 1>>>>>>>>,   \* 574
    <<<<"^", 1, 0>>, <<"rotr", 1, 58>>, <<"-=", 0, <<<<"b", 1>>>>>>>>,   \* 575
    <<<<"^", 3, 2>>, <<"rotr", 3, 22>>, <<"-=", 2, <<<<"b", 3>>>>>>>>,   \* 576
    <<<<"^", 3, 0>>, <<"rotr", 3, 46>>, <<"-=", 0, <<<<"b", 3>>>>>>>>,   \* 577
    <<<<"^", 1, 2>>, <<"rotr", 1, 12>>, <<"-=", 2, <<<<"b", 1>>>>>>>>,   \* 578
    <<<<"^", 1, 0>>, <<"rotr", 1, 25>>, <<"-=", 0, <<<<"b", 1>>, <<"k", 3>>>>>>, <<"-=", 1, <<<<"k", 4>>, <<"t", 0>>>>>>>>,   \* 579
    <<<<"^", 3, 2>>, <<"rotr", 3, 33>>, <<"-=", 2, <<<<"b", 3>>, <<"k", 0>>, <<"t", 1>>>>>>, <<"-=", 3, <<<<"k", 1>>, <<"n", 3>>>>>>>>   \* 580
   >>,
   <<
    <<<<"^", 3, 0>>, <<"rotr", 3, 5>>, <<"-=", 0, <<<<"b", 3>>>>>>>>,   \* 581
    <<<<"^", 1, 2>>, <<"rotr", 1, 37>>, <<"-=", 2, <<<<"b", 1>>>>>>>>,   \* 582
    <<<<"^", 1, 0>>, <<"rotr", 1, 23>>, <<"-=", 0, <<<<"b", 1>>>>>>>>,   \* 583
    <<<<"^", 3, 2>>, <<"rotr", 3, 40>>, <<"-=", 2, <<<<"b", 3>>>>>>>>,   \* 584
    <<<<"^", 3, 0>>, <<"rotr", 3, 52>>, <<"-=", 0, <<<<"b", 3>>>>>>>>,   \* 585
    <<<<"^", 1, 2>>, <<"rotr", 1, 57>>, <<"-=", 2, <<<<"b", 1>>>>>>>>,   \* 586
    <<<<"^", 1, 0>>, <<"rotr", 1, 14>>, <<"-=", 0, <<<<"b", 1>>, <<"k", 2>>>>>>, <<"-=", 1, <<<<"k", 3>>, <<"t", 2>>>>>>>>,   \* 587
    <<<<"^", 3, 2>>, <<"rotr", 3, 16>>, <<"-=", 2, <<<<"b", 3>>, <<"k", 4>>, <<"t", 0>>>>>>, <<"-=", 3, <<<<"k", 0>>, <<"n", 2>>>>>>>>   \* 588
   >>,
   <<
    <<<<"^", 3, 0>>, <<"rotr", 3, 32>>, <<"-=", 0, <<<<"b", 3>>>>>>>>,   \* 589
    <<<<"^", 1, 2>>, <<"rotr", 1, 32>>, <<"-=", 2, <<<<"b", 1>>>>>>>>,   \* 590
    <<<<"^", 1, 0>>, <<"rotr", 1, 58>>, <<"-=", 0, <<<<"b", 1>>>>>>>>,   \* 591
    <<<<"^", 3, 2>>, <<"rotr", 3, 22>>, <<"-=", 2, <<<<"b", 3>>>>>>>>,   \* 592
    <<<<"^", 3, 0>>, <<"rotr", 3, 46>>, <<"-=", 0, <<<<"b", 3>>>>>>>>,   \* 593
    <<<<"^", 1, 2>>, <<"rotr", 1, 12>>, <<"-=", 2, <<<<"b", 1>>>>>>>>,   \* 594
    <<<<"^", 1, 0>>, <<"rotr", 1, 25>>, <<"-=", 0, <<<<"b", 1>>, <<"k", 1>>>>>>, <<"-=", 1, <<<<"k", 2>>, <<"t", 1>>>>>>>>,   \* 595
    <<<<"^", 3, 2>>, <<"rotr", 3, 33>>, <<"-=", 2, <<<<"b", 3>>, <<"k", 3>>, <<"t", 2>>>>>>, <<"-=", 3, <<<<"k", 4>>, <<"n", 1>>>>>>>>   \* 596
   >>,
   <<
    <<<<"^", 3, 0>>, <<"rotr", 3, 5>>, <<"-=", 0, <<<<"b", 3>>>>>>>>,   \* 597
    <<<<"^", 1, 2>>, <<"rotr", 1, 37>>, <<"-=", 2, <<<<"b", 1>>>>>>>>,   \* 598
    <<<<"^", 1, 0>>, <<"rotr", 1, 23>>, <<"-=", 0, <<<<"b", 1>>>>>>>>,   \* 599
    <<<<"^", 3, 2>>, <<"rotr", 3, 40>>, <<"-=", 2, <<<<"b", 3>>>>>>>>,   \* 600
    <<<<"^", 3, 0>>, <<"rotr", 3, 52>>, <<"-=", 0, <<<<"b", 3>>>>>>>>,   \* 601
    <<<<"^", 1, 2>>, <<"rotr", 1, 57>>, <<"-=", 2, <<<<"b", 1>>>>>>>>,   \* 602
    <<<<"^", 1, 0>>, <<"rotr", 1, 14>>, <<"-=", 0, <<<<"b", 1>>, <<"k", 0>>>>>>, <<"-=", 1, <<<<"k", 1>>, <<"t", 0>>>>>>>>,   \* 603
    <<<<"^", 3, 2>>, <<"rotr", 3, 16>>, <<"-=", 2, <<<<"b", 3>>, <<"k", 2>>, <<"t", 1>>>>>>, <<"-=", 3, <<<<"k", 3>>>>>>>>   \* 604
   >>,
   <<
    <<<<"out", 0, <<<<"b", 0>>>>>>>>,   \* 606
    <<<<"out", 1, <<<<"b", 1>>>>>>>>,   \* 607
    <<<<"out", 2, <<<<"b", 2>>>>>>>>,   \* 608
    <<<<"out", 3, <<<<"b", 3>>>>>>>>   \* 609
   >>
  >>

(* func (tf *threefish256) decrypt(input, output []uint64): output afterwards *)
decrypt256(tf, input, output) ==
  Run(tf, decrypt256Code, CIPHER_QWORDS_256, input, output)

----------------------------------------------------------------------------
(* Threefish 512 *)

CIPHER_SIZE_512 == 512
CIPHER_QWORDS_512 == CIPHER_SIZE_512 \div 64
EXPANDED_KEY_SIZE_512 == CIPHER_QWORDS_512 + 1

(* new(threefish512): every array zeroed *)
threefish512 ==
  [type |-> CIPHER_SIZE_512,
   expanedTweak |-> Zeros(EXPANDED_TWEAK_SIZE),
   expanedKey |-> Zeros(EXPANDED_KEY_SIZE_512),
   tmpData1 |-> Zeros(CIPHER_QWORDS_512),
   tmpData2 |-> Zeros(CIPHER_QWORDS_512)]

(* func newThreefish512(key []byte, tweak []uint64) *)
newThreefish512(key, tweak) ==
  LET c0 == threefish512
      c1 == [c0 EXCEPT !.expanedTweak = setTweak(tweak, c0.expanedTweak)]
      c2 == [c1 EXCEPT !.expanedKey[EXPANDED_KEY_SIZE_512] = KEY_SCHEDULE_CONST]
  IN  IF key.isNil THEN c2
      ELSE [c2 EXCEPT !.expanedKey =
              setKey(KeyBytesToWords(key.data, EXPANDED_KEY_SIZE_512 - 1), c2.expanedKey)]

(* func newThreefish512_64(key, tweak []uint64) *)
newThreefish512_64(key, tweak) ==
  LET c0 == threefish512
      c1 == [c0 EXCEPT !.expanedTweak = setTweak(tweak, c0.expanedTweak)]
      c2 == [c1 EXCEPT !.expanedKey[EXPANDED_KEY_SIZE_512] = KEY_SCHEDULE_CONST]
  IN  [c2 EXCEPT !.expanedKey = setKey(key.data, c2.expanedKey)]


(* The statements of func (tf *threefish512) encrypt(input, output []uint64),
   threefish.go lines 671-985, after its loads of b0.., k0.., t0..: one tuple per
   source line, its line number at the end, the lines grouped by key-injection cycle. *)
encrypt512Code ==
  <<
   <<
    <<<<"+=", 1, <<<<"k", 1>>>>>>, <<"+=", 0, <<<<"b", 1>>, <<"k", 0>>>>>>, <<"rotl^", 1, 46, 0>>>>,   \* 688
    <<<<"+=", 3, <<<<"k", 3>>>>>>, <<"+=", 2, <<<<"b", 3>>, <<"k", 2>>>>>>, <<"rotl^", 3, 36, 2>>>>,   \* 689
    <<<<"+=", 5, <<<<"k", 5>>, <<"t", 0>>>>>>, <<"+=", 4, <<<<"b", 5>>, <<"k", 4>>>>>>, <<"rotl^", 5, 19, 4>>>>,   \* 690
    <<<<"+=", 7, <<<<"k", 7>>>>>>, <<"+=", 6, <<<<"b", 7>>, <<"k", 6>>, <<"t", 1>>>>>>, <<"rotl^", 7, 37, 6>>>>,   \* 691
    <<<<"+=", 2, <<<<"b", 1>>>>>>, <<"rotl^", 1, 33, 2>>>>,   \* 692
    <<<<"+=", 4, <<<<"b", 7>>>>>>, <<"rotl^", 7, 27, 4>>>>,   \* 693
    <<<<"+=", 6, <<<<"b", 5>>>>>>, <<"rotl^", 5, 14, 6>>>>,   \* 694
    <<<<"+=", 0, <<<<"b", 3>>>>>>, <<"rotl^", 3, 42, 0>>>>,   \* 695
    <<<<"+=", 4, <<<<"b", 1>>>>>>, <<"rotl^", 1, 17, 4>>>>,   \* 696
    <<<<"+=", 6, <<<<"b", 3>>>>>>, <<"rotl^", 3, 49, 6>>>>,   \* 697
    <<<<"+=", 0, <<<<"b", 5>>>>>>, <<"rotl^", 5, 36, 0>>>>,   \* 698
    <<<<"+=", 2, <<<<"b", 7>>>>>>, <<"rotl^", 7, 39, 2>>>>,   \* 699
    <<<<"+=", 6, <<<<"b", 1>>>>>>, <<"rotl^", 1, 44, 6>>>>,   \* 700
    <<<<"+=", 0, <<<<"b", 7>>>>>>, <<"rotl^", 7, 9, 0>>>>,   \* 701
    <<<<"+=", 2, <<<<"b", 5>>>>>>, <<"rotl^", 5, 54, 2>>>>,   \* 702
    <<<<"+=", 4, <<<<"b", 3>>>>>>, <<"rotl^", 3, 56, 4>>>>   \* 703
   >>,
   <<
    <<<<"+=", 1, <<<<"k", 2>>>>>>, <<"+=", 0, <<<<"b", 1>>, <<"k", 1>>>>>>, <<"rotl^", 1, 39, 0>>>>,   \* 704
    <<<<"+=", 3, <<<<"k", 4>>>>>>, <<"+=", 2, <<<<"b", 3>>, <<"k", 3>>>>>>, <<"rotl^", 3, 30, 2>>>>,   \* 705
    <<<<"+=", 5, <<<<"k", 6>>, <<"t", 1>>>>>>, <<"+=", 4, <<<<"b", 5>>, <<"k", 5>>>>>>, <<"rotl^", 5, 34, 4>>>>,   \* 706
    <<<<"+=", 7, <<<<"k", 8>>, <<"n", 1>>>>>>, <<"+=", 6, <<<<"b", 7>>, <<"k", 7>>, <<"t", 2>>>>>>, <<"rotl^", 7, 24, 6>>>>,   \* 707
    <<<<"+=", 2, <<<<"b", 1>>>>>>, <<"rotl^", 1, 13, 2>>>>,   \* 708
    <<<<"+=", 4, <<<<"b", 7>>>>>>, <<"rotl^", 7, 50, 4>>>>,   \* 709
    <<<<"+=", 6, <<<<"b", 5>>>>>>, <<"rotl^", 5, 10, 6>>>>,   \* 710
    <<<<"+=", 0, <<<<"b", 3>>>>>>, <<"rotl^", 3, 17, 0>>>>,   \* 711
    <<<<"+=", 4, <<<<"b", 1>>>>>>, <<"rotl^", 1, 25, 4>>>>,   \* 712
    <<<<"+=", 6, <<<<"b", 3>>>>>>, <<"rotl^", 3, 29, 6>>>>,   \* 713
    <<<<"+=", 0, <<<<"b", 5>>>>>>, <<"rotl^", 5, 39, 0>>>>,   \* 714
    <<<<"+=", 2, <<<<"b", 7>>>>>>, <<"rotl^", 7, 43, 2>>>>,   \* 715
    <<<<"+=", 6, <<<<"b", 1>>>>>>, <<"rotl^", 1, 8, 6>>>>,   \* 716
    <<<<"+=", 0, <<<<"b", 7>>>>>>, <<"rotl^", 7, 35, 0>>>>,   \* 717
    <<<<"+=", 2, <<<<"b", 5>>>>>>, <<"rotl^", 5, 56, 2>>>>,   \* 718
    <<<<"+=", 4, <<<<"b", 3>>>>>>, <<"rotl^", 3, 22, 4>>>>   \* 719
   >>,
   <<
    <<<<"+=", 1, <<<<"k", 3>>>>>>, <<"+=", 0, <<<<"b", 1>>, <<"k", 2>>>>>>, <<"rotl^", 1, 46, 0>>>>,   \* 720
    <<<<"+=", 3, <<<<"k", 5>>>>>>, <<"+=", 2, <<<<"b", 3>>, <<"k", 4>>>>>>, <<"rotl^", 3, 36, 2>>>>,   \* 721
    <<<<"+=", 5, <<<<"k", 7>>, <<"t", 2>>>>>>, <<"+=", 4, <<<<"b", 5>>, <<"k", 6>>>>>>, <<"rotl^", 5, 19, 4>>>>,   \* 722
    <<<<"+=", 7, <<<<"k", 0>>, <<"n", 2>>>>>>, <<"+=", 6, <<<<"b", 7>>, <<"k", 8>>, <<"t", 0>>>>>>, <<"rotl^", 7, 37, 6>>>>,   \* 723
    <<<<"+=", 2, <<<<"b", 1>>>>>>, <<"rotl^", 1, 33, 2>>>>,   \* 724
    <<<<"+=", 4, <<<<"b", 7>>>>>>, <<"rotl^", 7, 27, 4>>>>,   \* 725
    <<<<"+=", 6, <<<<"b", 5>>>>>>, <<"rotl^", 5, 14, 6>>>>,   \* 726
    <<<<"+=", 0, <<<<"b", 3>>>>>>, <<"rotl^", 3, 42, 0>>>>,   \* 727
    <<<<"+=", 4, <<<<"b", 1>>>>>>, <<"rotl^", 1, 17, 4>>>>,   \* 728
    <<<<"+=", 6, <<<<"b", 3>>>>>>, <<"rotl^", 3, 49, 6>>>>,   \* 729
    <<<<"+=", 0, <<<<"b", 5>>>>>>, <<"rotl^", 5, 36, 0>>>>,   \* 730
    <<<<"+=", 2, <<<<"b", 7>>>>>>, <<"rotl^", 7, 39, 2>>>>,   \* 731
    <<<<"+=", 6, <<<<"b", 1>>>>>>, <<"rotl^", 1, 44, 6>>>>,   \* 732
    <<<<"+=", 0, <<<<"b", 7>>>>>>, <<"rotl^", 7, 9, 0>>>>,   \* 733
    <<<<"+=", 2, <<<<"b", 5>>>>>>, <<"rotl^", 5, 54, 2>>>>,   \* 734
    <<<<"+=", 4, <<<<"b", 3>>>>>>, <<"rotl^", 3, 56, 4>>>>   \* 735
   >>,
   <<
    <<<<"+=", 1, <<<<"k", 4>>>>>>, <<"+=", 0, <<<<"b", 1>>, <<"k", 3>>>>>>, <<"rotl^", 1, 39, 0>>>>,   \* 736
    <<<<"+=", 3, <<<<"k", 6>>>>>>, <<"+=", 2, <<<<"b", 3>>, <<"k", 5>>>>>>, <<"rotl^", 3, 30, 2>>>>,   \* 737
    <<<<"+=", 5, <<<<"k", 8>>, <<"t", 0>>>>>>, <<"+=", 4, <<<<"b", 5>>, <<"k", 7>>>>>>, <<"rotl^", 5, 34, 4>>>>,   \* 738
    <<<<"+=", 7, <<<<"k", 1>>, <<"n", 3>>>>>>, <<"+=", 6, <<<<"b", 7>>, <<"k", 0>>, <<"t", 1>>>>>>, <<"rotl^", 7, 24, 6>>>>,   \* 739
    <<<<"+=", 2, <<<<"b", 1>>>>>>, <<"rotl^", 1, 13, 2>>>>,   \* 740
    <<<<"+=", 4, <<<<"b", 7>>>>>>, <<"rotl^", 7, 50, 4>>>>,   \* 741
    <<<<"+=", 6, <<<<"b", 5>>>>>>, <<"rotl^", 5, 10, 6>>>>,   \* 742
    <<<<"+=", 0, <<<<"b", 3>>>>>>, <<"rotl^", 3, 17, 0>>>>,   \* 743
    <<<<"+=", 4, <<<<"b", 1>>>>>>, <<"rotl^", 1, 25, 4>>>>,   \* 744
    <<<<"+=", 6, <<<<"b", 3>>>>>>, <<"rotl^", 3, 29, 6>>>>,   \* 745
    <<<<"+=", 0, <<<<"b", 5>>>>>>, <<"rotl^", 5, 39, 0>>>>,   \* 746
    <<<<"+=", 2, <<<<"b", 7>>>>>>, <<"rotl^", 7, 43, 2>>>>,   \* 747
    <<<<"+=", 6, <<<<"b", 1>>>>>>, <<"rotl^", 1, 8, 6>>>>,   \* 748
    <<<<"+=", 0, <<<<"b", 7>>>>>>, <<"rotl^", 7, 35, 0>>>>,   \* 749
    <<<<"+=", 2, <<<<"b", 5>>>>>>, <<"rotl^", 5, 56, 2>>>>,   \* 750
    <<<<"+=", 4, <<<<"b", 3>>>>>>, <<"rotl^", 3, 22, 4>>>>   \* 751
   >>,
   <<
    <<<<"+=", 1, <<<<"k", 5>>>>>>, <<"+=", 0, <<<<"b", 1>>, <<"k", 4>>>>>>, <<"rotl^", 1, 46, 0>>>>,   \* 752
    <<<<"+=", 3, <<<<"k", 7>>>>>>, <<"+=", 2, <<<<"b", 3>>, <<"k", 6>>>>>>, <<"rotl^", 3, 36, 2>>>>,   \* 753
    <<<<"+=", 5, <<<<"k", 0>>, <<"t", 1>>>>>>, <<"+=", 4, <<<<"b", 5>>, <<"k", 8>>>>>>, <<"rotl^", 5, 19, 4>>>>,   \* 754
    <<<<"+=", 7, <<<<"k", 2>>, <<"n", 4>>>>>>, <<"+=", 6, <<<<"b", 7>>, <<"k", 1>>, <<"t", 2>>>>>>, <<"rotl^", 7, 37, 6>>>>,   \* 755
    <<<<"+=", 2, <<<<"b", 1>>>>>>, <<"rotl^", 1, 33, 2>>>>,   \* 756
    <<<<"+=", 4, <<<<"b", 7>>>>>>, <<"rotl^", 7, 27, 4>>>>,   \* 757
    <<<<"+=", 6, <<<<"b", 5>>>>>>, <<"rotl^", 5, 14, 6>>>>,   \* 758
    <<<<"+=", 0, <<<<"b", 3>>>>>>, <<"rotl^", 3, 42, 0>>>>,   \* 759
    <<<<"+=", 4, <<<<"b", 1>>>>>>, <<"rotl^", 1, 17, 4>>>>,   \* 760
    <<<<"+=", 6, <<<<"b", 3>>>>>>, <<"rotl^", 3, 49, 6>>>>,   \* 761
    <<<<"+=", 0, <<<<"b", 5>>>>>>, <<"rotl^", 5, 36, 0>>>>,   \* 762
    <<<<"+=", 2, <<<<"b", 7>>>>>>, <<"rotl^", 7, 39, 2>>>>,   \* 763
    <<<<"+=", 6, <<<<"b", 1>>>>>>, <<"rotl^", 1, 44, 6>>>>,   \* 764
    <<<<"+=", 0, <<<<"b", 7>>>>>>, <<"rotl^", 7, 9, 0>>>>,   \* 765
    <<<<"+=", 2, <<<<"b", 5>>>>>>, <<"rotl^", 5, 54, 2>>>>,   \* 766
    <<<<"+=", 4, <<<<"b", 3>>>>>>, <<"rotl^", 3, 56, 4>>>>   \* 767
   >>,
   <<
    <<<<"+=", 1, <<<<"k", 6>>>>>>, <<"+=", 0, <<<<"b", 1>>, <<"k", 5>>>>>>, <<"rotl^", 1, 39, 0>>>>,   \* 768
    <<<<"+=", 3, <<<<"k", 8>>>>>>, <<"+=", 2, <<<<"b", 3>>, <<"k", 7>>>>>>, <<"rotl^", 3, 30, 2>>>>,   \* 769
    <<<<"+=", 5, <<<<"k", 1>>, <<"t", 2>>>>>>, <<"+=", 4, <<<<"b", 5>>, <<"k", 0>>>>>>, <<"rotl^", 5, 34, 4>>>>,   \* 770
    <<<<"+=", 7, <<<<"k", 3>>, <<"n", 5>>>>>>, <<"+=", 6, <<<<"b", 7>>, <<"k", 2>>, <<"t", 0>>>>>>, <<"rotl^", 7, 24, 6>>>>,   \* 771
    <<<<"+=", 2, <<<<"b", 1>>>>>>, <<"rotl^", 1, 13, 2>>>>,   \* 772
    <<<<"+=", 4, <<<<"b", 7>>>>>>, <<"rotl^", 7, 50, 4>>>>,   \* 773
    <<<<"+=", 6, <<<<"b", 5>>>>>>, <<"rotl^", 5, 10, 6>>>>,   \* 774
    <<<<"+=", 0, <<<<"b", 3>>>>>>, <<"rotl^", 3, 17, 0>>>>,   \* 775
    <<<<"+=", 4, <<<<"b", 1>>>>>>, <<"rotl^", 1, 25, 4>>>>,   \* 776
    <<<<"+=", 6, <<<<"b", 3>>>>>>, <<"rotl^", 3, 29, 6>>>>,   \* 777
    <<<<"+=", 0, <<<<"b", 5>>>>>>, <<"rotl^", 5, 39, 0>>>>,   \* 778
    <<<<"+=", 2, <<<<"b", 7>>>>>>, <<"rotl^", 7, 43, 2>>>>,   \* 779
    <<<<"+=", 6, <<<<"b", 1>>>>>>, <<"rotl^", 1, 8, 6>>>>,   \* 780
    <<<<"+=", 0, <<<<"b", 7>>>>>>, <<"rotl^", 7, 35, 0>>>>,   \* 781
    <<<<"+=", 2, <<<<"b", 5>>>>>>, <<"rotl^", 5, 56, 2>>>>,   \* 782
    <<<<"+=", 4, <<<<"b", 3>>>>>>, <<"rotl^", 3, 22, 4>>>>   \* 783
   >>,
   <<
    <<<<"+=", 1, <<<<"k", 7>>>>>>, <<"+=", 0, <<<<"b", 1>>, <<"k", 6>>>>>>, <<"rotl^", 1, 46, 0>>>>,   \* 784
    <<<<"+=", 3, <<<<"k", 0>>>>>>, <<"+=", 2, <<<<"b", 3>>, <<"k", 8>>>>>>, <<"rotl^", 3, 36, 2>>>>,   \* 785
    <<<<"+=", 5, <<<<"k", 2>>, <<"t", 0>>>>>>, <<"+=", 4, <<<<"b", 5>>, <<"k", 1>>>>>>, <<"rotl^", 5, 19, 4>>>>,   \* 786
    <<<<"+=", 7, <<<<"k", 4>>, <<"n", 6>>>>>>, <<"+=", 6, <<<<"b", 7>>, <<"k", 3>>, <<"t", 1>>>>>>, <<"rotl^", 7, 37, 6>>>>,   \* 787
    <<<<"+=", 2, <<<<"b", 1>>>>>>, <<"rotl^", 1, 33, 2>>>>,   \* 788
    <<<<"+=", 4, <<<<"b", 7>>>>>>, <<"rotl^", 7, 27, 4>>>>,   \* 789
    <<<<"+=", 6, <<<<"b", 5>>>>>>, <<"rotl^", 5, 14, 6>>>>,   \* 790
    <<<<"+=", 0, <<<<"b", 3>>>>>>, <<"rotl^", 3, 42, 0>>>>,   \* 791
    <<<<"+=", 4, <<<<"b", 1>>>>>>, <<"rotl^", 1, 17, 4>>>>,   \* 792
    <<<<"+=", 6, <<<<"b", 3>>>>>>, <<"rotl^", 3, 49, 6>>>>,   \* 793
    <<<<"+=", 0, <<<<"b", 5>>>>>>, <<"rotl^", 5, 36, 0>>>>,   \* 794
    <<<<"+=", 2, <<<<"b", 7>>>>>>, <<"rotl^", 7, 39, 2>>>>,   \* 795
    <<<<"+=", 6, <<<<"b", 1>>>>>>, <<"rotl^", 1, 44, 6>>>>,   \* 796
    <<<<"+=", 0, <<<<"b", 7>>>>>>, <<"rotl^", 7, 9, 0>>>>,   \* 797
    <<<<"+=", 2, <<<<"b", 5>>>>>>, <<"rotl^", 5, 54, 2>>>>,   \* 798
    <<<<"+=", 4, <<<<"b", 3>>>>>>, <<"rotl^", 3, 56, 4>>>>   \* 799
   >>,
   <<
    <<<<"+=", 1, <<<<"k", 8>>>>>>, <<"+=", 0, <<<<"b", 1>>, <<"k", 7>>>>>>, <<"rotl^", 1, 39, 0>>>>,   \* 800
    <<<<"+=", 3, <<<<"k", 1>>>>>>, <<"+=", 2, <<<<"b", 3>>, <<"k", 0>>>>>>, <<"rotl^", 3, 30, 2>>>>,   \* 801
    <<<<"+=", 5, <<<<"k", 3>>, <<"t", 1>>>>>>, <<"+=", 4, <<<<"b", 5>>, <<"k", 2>>>>>>, <<"rotl^", 5, 34, 4>>>>,   \* 802
    <<<<"+=", 7, <<<<"k", 5>>, <<"n", 7>>>>>>, <<"+=", 6, <<<<"b", 7>>, <<"k", 4>>, <<"t", 2>>>>>>, <<"rotl^", 7, 24, 6>>>>,   \* 803
    <<<<"+=", 2, <<<<"b", 1>>>>>>, <<"rotl^", 1, 13, 2>>>>,   \* 804
    <<<<"+=", 4, <<<<"b", 7>>>>>>, <<"rotl^", 7, 50, 4>>>>,   \* 805
    <<<<"+=", 6, <<<<"b", 5>>>>>>, <<"rotl^", 5, 10, 6>>>>,   \* 806
    <<<<"+=", 0, <<<<"b", 3>>>>>>, <<"rotl^", 3, 17, 0>>>>,   \* 807
    <<<<"+=", 4, <<<<"b", 1>>>>>>, <<"rotl^", 1, 25, 4>>>>,   \* 808
    <<<<"+=", 6, <<<<"b", 3>>>>>>, <<"rotl^", 3, 29, 6>>>>,   \* 809
    <<<<"+=", 0, <<<<"b", 5>>>>>>, <<"rotl^", 5, 39, 0>>>>,   \* 810
    <<<<"+=", 2, <<<<"b", 7>>>>>>, <<"rotl^", 7, 43, 2>>>>,   \* 811
    <<<<"+=", 6, <<<<"b", 1>>>>>>, <<"rotl^", 1, 8, 6>>>>,   \* 812
    <<<<"+=", 0, <<<<"b", 7>>>>>>, <<"rotl^", 7, 35, 0>>>>,   \* 813
    <<<<"+=", 2, <<<<"b", 5>>>>>>, <<"rotl^", 5, 56, 2>>>>,   \* 814
    <<<<"+=", 4, <<<<"b", 3>>>>>>, <<"rotl^", 3, 22, 4>>>>   \* 815
   >>,
   <<
    <<<<"+=", 1, <<<<"k", 0>>>>>>, <<"+=", 0, <<<<"b", 1>>, <<"k", 8>>>>>>, <<"rotl^", 1, 46, 0>>>>,   \* 816
    <<<<"+=", 3, <<<<"k", 2>>>>>>, <<"+=", 2, <<<<"b", 3>>, <<"k", 1>>>>>>, <<"rotl^", 3, 36, 2>>>>,   \* 817
    <<<<"+=", 5, <<<<"k", 4>>, <<"t", 2>>>>>>, <<"+=", 4, <<<<"b", 5>>, <<"k", 3>>>>>>, <<"rotl^", 5, 19, 4>>>>,   \* 818
    <<<<"+=", 7, <<<<"k", 6>>, <<"n", 8>>>>>>, <<"+=", 6, <<<<"b", 7>>, <<"k", 5>>, <<"t", 0>>>>>>, <<"rotl^", 7, 37, 6>>>>,   \* 819
    <<<<"+=", 2, <<<<"b", 1>>>>>>, <<"rotl^", 1, 33, 2>>>>,   \* 820
    <<<<"+=", 4, <<<<"b", 7>>>>>>, <<"rotl^", 7, 27, 4>>>>,   \* 821
    <<<<"+=", 6, <<<<"b", 5>>>>>>, <<"rotl^", 5, 14, 6>>>>,   \* 822
    <<<<"+=", 0, <<<<"b", 3>>>>>>, <<"rotl^", 3, 42, 0>>>>,   \* 823
    <<<<"+=", 4, <<<<"b", 1>>>>>>, <<"rotl^", 1, 17, 4>>>>,   \* 824
    <<<<"+=", 6, <<<<"b", 3>>>>>>, <<"rotl^", 3, 49, 6>>>>,   \* 825
    <<<<"+=", 0, <<<<"b", 5>>>>>>, <<"rotl^", 5, 36, 0>>>>,   \* 826
    <<<<"+=", 2, <<<<"b", 7>>>>>>, <<"rotl^", 7, 39, 2>>>>,   \* 827
    <<<<"+=", 6, <<<<"b", 1>>>>>>, <<"rotl^", 1, 44, 6>>>>,   \* 828
    <<<<"+=", 0, <<<<"b", 7>>>>>>, <<"rotl^", 7, 9, 0>>>>,   \* 829
    <<<<"+=", 2, <<<<"b", 5>>>>>>, <<"rotl^", 5, 54, 2>>>>,   \* 830
    <<<<"+=", 4, <<<<"b", 3>>>>>>, <<"rotl^", 3, 56, 4>>>>   \* 831
   >>,
   <<
    <<<<"+=", 1, <<<<"k", 1>>>>>>, <<"+=", 0, <<<<"b", 1>>, <<"k", 0>>>>>>, <<"rotl^", 1, 39, 0>>>>,   \* 832
    <<<<"+=", 3, <<<<"k", 3>>>>>>, <<"+=", 2, <<<<"b", 3>>, <<"k", 2>>>>>>, <<"rotl^", 3, 30, 2>>>>,   \* 833
    <<<<"+=", 5, <<<<"k", 5>>, <<"t", 0>>>>>>, <<"+=", 4, <<<<"b", 5>>, <<"k", 4>>>>>>, <<"rotl^", 5, 34, 4>>>>,   \* 834
    <<<<"+=", 7, <<<<"k", 7>>, <<"n", 9>>>>>>, <<"+=", 6, <<<<"b", 7>>, <<"k", 6>>, <<"t", 1>>>>>>, <<"rotl^", 7, 24, 6>>>>,   \* 835
    <<<<"+=", 2, <<<<"b", 1>>>>>>, <<"rotl^", 1, 13, 2>>>>,   \* 836
    <<<<"+=", 4, <<<<"b", 7>>>>>>, <<"rotl^", 7, 50, 4>>>>,   \* 837
    <<<<"+=", 6, <<<<"b", 5>>>>>>, <<"rotl^", 5, 10, 6>>>>,   \* 838
    <<<<"+=", 0, <<<<"b", 3>>>>>>, <<"rotl^", 3, 17, 0>>>>,   \* 839
    <<<<"+=", 4, <<<<"b", 1>>>>>>, <<"rotl^", 1, 25, 4>>>>,   \* 840
    <<<<"+=", 6, <<<<"b", 3>>>>>>, <<"rotl^", 3, 29, 6>>>>,   \* 841
    <<<<"+=", 0, <<<<"b", 5>>>>>>, <<"rotl^", 5, 39, 0>>>>,   \* 842
    <<<<"+=", 2, <<<<"b", 7>>>>>>, <<"rotl^", 7, 43, 2>>>>,   \* 843
    <<<<"+=", 6, <<<<"b", 1>>>>>>, <<"rotl^", 1, 8, 6>>>>,   \* 844
    <<<<"+=", 0, <<<<"b", 7>>>>>>, <<"rotl^", 7, 35, 0>>>>,   \* 845
    <<<<"+=", 2, <<<<"b", 5>>>>>>, <<"rotl^", 5, 56, 2>>>>,   \* 846
    <<<<"+=", 4, <<<<"b", 3>>>>>>, <<"rotl^", 3, 22, 4>>>>   \* 847
   >>,
   <<
    <<<<"+=", 1, <<<<"k", 2>>>>>>, <<"+=", 0, <<<<"b", 1>>, <<"k", 1>>>>>>, <<"rotl^", 1, 46, 0>>>>,   \* 848
    <<<<"+=", 3, <<<<"k", 4>>>>>>, <<"+=", 2, <<<<"b", 3>>, <<"k", 3>>>>>>, <<"rotl^", 3, 36, 2>>>>,   \* 849
    <<<<"+=", 5, <<<<"k", 6>>, <<"t", 1>>>>>>, <<"+=", 4, <<<<"b", 5>>, <<"k", 5>>>>>>, <<"rotl^", 5, 19, 4>>>>,   \* 850
    <<<<"+=", 7, <<<<"k", 8>>, <<"n", 10>>>>>>, <<"+=", 6, <<<<"b", 7>>, <<"k", 7>>, <<"t", 2>>>>>>, <<"rotl^", 7, 37, 6>>>>,   \* 851
    <<<<"+=", 2, <<<<"b", 1>>>>>>, <<"rotl^", 1, 33, 2>>>>,   \* 852
    <<<<"+=", 4, <<<<"b", 7>>>>>>, <<"rotl^", 7, 27, 4>>>>,   \* 853
    <<<<"+=", 6, <<<<"b", 5>>>>>>, <<"rotl^", 5, 14, 6>>>>,   \* 854
    <<<<"+=", 0, <<<<"b", 3>>>>>>, <<"rotl^", 3, 42, 0>>>>,   \* 855
    <<<<"+=", 4, <<<<"b", 1>>>>>>, <<"rotl^", 1, 17, 4>>>>,   \* 856
    <<<<"+=", 6, <<<<"b", 3>>>>>>, <<"rotl^", 3, 49, 6>>>>,   \* 857
    <<<<"+=", 0, <<<<"b", 5>>>>>>, <<"rotl^", 5, 36, 0>>>>,   \* 858
    <<<<"+=", 2, <<<<"b", 7>>>>>>, <<"rotl^", 7, 39, 2>>>>,   \* 859
    <<<<"+=", 6, <<<<"b", 1>>>>>>, <<"rotl^", 1, 44, 6>>>>,   \* 860
    <<<<"+=", 0, <<<<"b", 7>>>>>>, <<"rotl^", 7, 9, 0>>>>,   \* 861
    <<<<"+=", 2, <<<<"b", 5>>>>>>, <<"rotl^", 5, 54, 2>>>>,   \* 862
    <<<<"+=", 4, <<<<"b", 3>>>>>>, <<"rotl^", 3, 56, 4>>>>   \* 863
   >>,
   <<
    <<<<"+=", 1, <<<<"k", 3>>>>>>, <<"+=", 0, <<<<"b", 1>>, <<"k", 2>>>>>>, <<"rotl^", 1, 39, 0>>>>,   \* 864
    <<<<"+=", 3, <<<<"k", 5>>>>>>, <<"+=", 2, <<<<"b", 3>>, <<"k", 4>>>>>>, <<"rotl^", 3, 30, 2>>>>,   \* 865
    <<<<"+=", 5, <<<<"k", 7>>, <<"t", 2>>>>>>, <<"+=", 4, <<<<"b", 5>>, <<"k", 6>>>>>>, <<"rotl^", 5, 34, 4>>>>,   \* 866
    <<<<"+=", 7, <<<<"k", 0>>, <<"n", 11>>>>>>, <<"+=", 6, <<<<"b", 7>>, <<"k", 8>>, <<"t", 0>>>>>>, <<"rotl^", 7, 24, 6>>>>,   \* 867
    <<<<"+=", 2, <<<<"b", 1>>>>>>, <<"rotl^", 1, 13, 2>>>>,   \* 868
    <<<<"+=", 4, <<<<"b", 7>>>>>>, <<"rotl^", 7, 50, 4>>>>,   \* 869
    <<<<"+=", 6, <<<<"b", 5>>>>>>, <<"rotl^", 5, 10, 6>>>>,   \* 870
    <<<<"+=", 0, <<<<"b", 3>>>>>>, <<"rotl^", 3, 17, 0>>>>,   \* 871
    <<<<"+=", 4, <<<<"b", 1>>>>>>, <<"rotl^", 1, 25, 4>>>>,   \* 872
    <<<<"+=", 6, <<<<"b", 3>>>>>>, <<"rotl^", 3, 29, 6>>>>,   \* 873
    <<<<"+=", 0, <<<<"b", 5>>>>>>, <<"rotl^", 5, 39, 0>>>>,   \* 874
    <<<<"+=", 2, <<<<"b", 7>>>>>>, <<"rotl^", 7, 43, 2>>>>,   \* 875
    <<<<"+=", 6, <<<<"b", 1>>>>>>, <<"rotl^", 1, 8, 6>>>>,   \* 876
    <<<<"+=", 0, <<<<"b", 7>>>>>>, <<"rotl^", 7, 35, 0>>>>,   \* 877
    <<<<"+=", 2, <<<<"b", 5>>>>>>, <<"rotl^", 5, 56, 2>>>>,   \* 878
    <<<<"+=", 4, <<<<"b", 3>>>>>>, <<"rotl^", 3, 22, 4>>>>   \* 879
   >>,
   <<
    <<<<"+=", 1, <<<<"k", 4>>>>>>, <<"+=", 0, <<<<"b", 1>>, <<"k", 3>>>>>>, <<"rotl^", 1, 46, 0>>>>,   \* 880
    <<<<"+=", 3, <<<<"k", 6>>>>>>, <<"+=", 2, <<<<"b", 3>>, <<"k", 5>>>>>>, <<"rotl^", 3, 36, 2>>>>,   \* 881
    <<<<"+=", 5, <<<<"k", 8>>, <<"t", 0>>>>>>, <<"+=", 4, <<<<"b", 5>>, <<"k", 7>>>>>>, <<"rotl^", 5, 19, 4>>>>,   \* 882
    <<<<"+=", 7, <<<<"k", 1>>, <<"n", 12>>>>>>, <<"+=", 6, <<<<"b", 7>>, <<"k", 0>>, <<"t", 1>>>>>>, <<"rotl^", 7, 37, 6>>>>,   \* 883
    <<<<"+=", 2, <<<<"b", 1>>>>>>, <<"rotl^", 1, 33, 2>>>>,   \* 884
    <<<<"+=", 4, <<<<"b", 7>>>>>>, <<"rotl^", 7, 27, 4>>>>,   \* 885
    <<<<"+=", 6, <<<<"b", 5>>>>>>, <<"rotl^", 5, 14, 6>>>>,   \* 886
    <<<<"+=", 0, <<<<"b", 3>>>>>>, <<"rotl^", 3, 42, 0>>>>,   \* 887
    <<<<"+=", 4, <<<<"b", 1>>>>>>, <<"rotl^", 1, 17, 4>>>>,   \* 888
    <<<<"+=", 6, <<<<"b", 3>>>>>>, <<"rotl^", 3, 49, 6>>>>,   \* 889
    <<<<"+=", 0, <<<<"b", 5>>>>>>, <<"rotl^", 5, 36, 0>>>>,   \* 890
    <<<<"+=", 2, <<<<"b", 7>>>>>>, <<"rotl^", 7, 39, 2>>>>,   \* 891
    <<<<"+=", 6, <<<<"b", 1>>>>>>, <<"rotl^", 1, 44, 6>>>>,   \* 892
    <<<<"+=", 0, <<<<"b", 7>>>>>>, <<"rotl^", 7, 9, 0>>>>,   \* 893
    <<<<"+=", 2, <<<<"b", 5>>>>>>, <<"rotl^", 5, 54, 2>>>>,   \* 894
    <<<<"+=", 4, <<<<"b", 3>>>>>>, <<"rotl^", 3, 56, 4>>>>   \* 895
   >>,
   <<
    <<<<"+=", 1, <<<<"k", 5>>>>>>, <<"+=", 0, <<<<"b", 1>>, <<"k", 4>>>>>>, <<"rotl^", 1, 39, 0>>>>,   \* 896
    <<<<"+=", 3, <<<<"k", 7>>>>>>, <<"+=", 2, <<<<"b", 3>>, <<"k", 6>>>>>>, <<"rotl^", 3, 30, 2>>>>,   \* 897
    <<<<"+=", 5, <<<<"k", 0>>, <<"t", 1>>>>>>, <<"+=", 4, <<<<"b", 5>>, <<"k", 8>>>>>>, <<"rotl^", 5, 34, 4>>>>,   \* 898
    <<<<"+=", 7, <<<<"k", 2>>, <<"n", 13>>>>>>, <<"+=", 6, <<<<"b", 7>>, <<"k", 1>>, <<"t", 2>>>>>>, <<"rotl^", 7, 24, 6>>>>,   \* 899
    <<<<"+=", 2, <<<<"b", 1>>>>>>, <<"rotl^", 1, 13, 2>>>>,   \* 900
    <<<<"+=", 4, <<<<"b", 7>>>>>>, <<"rotl^", 7, 50, 4>>>>,   \* 901
    <<<<"+=", 6, <<<<"b", 5>>>>>>, <<"rotl^", 5, 10, 6>>>>,   \* 902
    <<<<"+=", 0, <<<<"b", 3>>>>>>, <<"rotl^", 3, 17, 0>>>>,   \* 903
    <<<<"+=", 4, <<<<"b", 1>>>>>>, <<"rotl^", 1, 25, 4>>>>,   \* 904
    <<<<"+=", 6, <<<<"b", 3>>>>>>, <<"rotl^", 3, 29, 6>>>>,   \* 905
    <<<<"+=", 0, <<<<"b", 5>>>>>>, <<"rotl^", 5, 39, 0>>>>,   \* 906
    <<<<"+=", 2, <<<<"b", 7>>>>>>, <<"rotl^", 7, 43, 2>>>>,   \* 907
    <<<<"+=", 6, <<<<"b", 1>>>>>>, <<"rotl^", 1, 8, 6>>>>,   \* 908
    <<<<"+=", 0, <<<<"b", 7>>>>>>, <<"rotl^", 7, 35, 0>>>>,   \* 909
    <<<<"+=", 2, <<<<"b", 5>>>>>>, <<"rotl^", 5, 56, 2>>>>,   \* 910
    <<<<"+=", 4, <<<<"b", 3>>>>>>, <<"rotl^", 3, 22, 4>>>>   \* 911
   >>,
   <<
    <<<<"+=", 1, <<<<"k", 6>>>>>>, <<"+=", 0, <<<<"b", 1>>, <<"k", 5>>>>>>, <<"rotl^", 1, 46, 0>>>>,   \* 912
    <<<<"+=", 3, <<<<"k", 8>>>>>>, <<"+=", 2, <<<<"b", 3>>, <<"k", 7>>>>>>, <<"rotl^", 3, 36, 2>>>>,   \* 913
    <<<<"+=", 5, <<<<"k", 1>>, <<"t", 2>>>>>>, <<"+=", 4, <<<<"b", 5>>, <<"k", 0>>>>>>, <<"rotl^", 5, 19, 4>>>>,   \* 914
    <<<<"+=", 7, <<<<"k", 3>>, <<"n", 14>>>>>>, <<"+=", 6, <<<<"b", 7>>, <<"k", 2>>, <<"t", 0>>>>>>, <<"rotl^", 7, 37, 6>>>>,   \* 915
    <<<<"+=", 2, <<<<"b", 1>>>>>>, <<"rotl^", 1, 33, 2>>>>,   \* 916
    <<<<"+=", 4, <<<<"b", 7>>>>>>, <<"rotl^", 7, 27, 4>>>>,   \* 917
    <<<<"+=", 6, <<<<"b", 5>>>>>>, <<"rotl^", 5, 14, 6>>>>,   \* 918
    <<<<"+=", 0, <<<<"b", 3>>>>>>, <<"rotl^", 3, 42, 0>>>>,   \* 919
    <<<<"+=", 4, <<<<"b", 1>>>>>>, <<"rotl^", 1, 17, 4>>>>,   \* 920
    <<<<"+=", 6, <<<<"b", 3>>>>>>, <<"rotl^", 3, 49, 6>>>>,   \* 921
    <<<<"+=", 0, <<<<"b", 5>>>>>>, <<"rotl^", 5, 36, 0>>>>,   \* 922
    <<<<"+=", 2, <<<<"b", 7>>>>>>, <<"rotl^", 7, 39, 2>>>>,   \* 923
    <<<<"+=", 6, <<<<"b", 1>>>>>>, <<"rotl^", 1, 44, 6>>>>,   \* 924
    <<<<"+=", 0, <<<<"b", 7>>>>>>, <<"rotl^", 7, 9, 0>>>>,   \* 925
    <<<<"+=", 2, <<<<"b", 5>>>>>>, <<"rotl^", 5, 54, 2>>>>,   \* 926
    <<<<"+=", 4, <<<<"b", 3>>>>>>, <<"rotl^", 3, 56, 4>>>>   \* 927
   >>,
   <<
    <<<<"+=", 1, <<<<"k", 7>>>>>>, <<"+=", 0, <<<<"b", 1>>, <<"k", 6>>>>>>, <<"rotl^", 1, 39, 0>>>>,   \* 928
    <<<<"+=", 3, <<<<"k", 0>>>>>>, <<"+=", 2, <<<<"b", 3>>, <<"k", 8>>>>>>, <<"rotl^", 3, 30, 2>>>>,   \* 929
    <<<<"+=", 5, <<<<"k", 2>>, <<"t", 0>>>>>>, <<"+=", 4, <<<<"b", 5>>, <<"k", 1>>>>>>, <<"rotl^", 5, 34, 4>>>>,   \* 930
    <<<<"+=", 7, <<<<"k", 4>>, <<"n", 15>>>>>>, <<"+=", 6, <<<<"b", 7>>, <<"k", 3>>, <<"t", 1>>>>>>, <<"rotl^", 7, 24, 6>>>>,   \* 931
    <<<<"+=", 2, <<<<"b", 1>>>>>>, <<"rotl^", 1, 13, 2>>>>,   \* 932
    <<<<"+=", 4, <<<<"b", 7>>>>>>, <<"rotl^", 7, 50, 4>>>>,   \* 933
    <<<<"+=", 6, <<<<"b", 5>>>>>>, <<"rotl^", 5, 10, 6>>>>,   \* 934
    <<<<"+=", 0, <<<<"b", 3>>>>>>, <<"rotl^", 3, 17, 0>>>>,   \* 935
    <<<<"+=", 4, <<<<"b", 1>>>>>>, <<"rotl^", 1, 25, 4>>>>,   \* 936
    <<<<"+=", 6, <<<<"b", 3>>>>>>, <<"rotl^", 3, 29, 6>>>>,   \* 937
    <<<<"+=", 0, <<<<"b", 5>>>>>>, <<"rotl^", 5, 39, 0>>>>,   \* 938
    <<<<"+=", 2, <<<<"b", 7>>>>>>, <<"rotl^", 7, 43, 2>>>>,   \* 939
    <<<<"+=", 6, <<<<"b", 1>>>>>>, <<"rotl^", 1, 8, 6>>>>,   \* 940
    <<<<"+=", 0, <<<<"b", 7>>>>>>, <<"rotl^", 7, 35, 0>>>>,   \* 941
    <<<<"+=", 2, <<<<"b", 5>>>>>>, <<"rotl^", 5, 56, 2>>>>,   \* 942
    <<<<"+=", 4, <<<<"b", 3>>>>>>, <<"rotl^", 3, 22, 4>>>>   \* 943
   >>,
   <<
    <<<<"+=", 1, <<<<"k", 8>>>>>>, <<"+=", 0, <<<<"b", 1>>, <<"k", 7>>>>>>, <<"rotl^", 1, 46, 0>>>>,   \* 944
    <<<<"+=", 3, <<<<"k", 1>>>>>>, <<"+=", 2, <<<<"b", 3>>, <<"k", 0>>>>>>, <<"rotl^", 3, 36, 2>>>>,   \* 945
    <<<<"+=", 5, <<<<"k", 3>>, <<"t", 1>>>>>>, <<"+=", 4, <<<<"b", 5>>, <<"k", 2>>>>>>, <<"rotl^", 5, 19, 4>>>>,   \* 946
    <<<<"+=", 7, <<<<"k", 5>>, <<"n", 16>>>>>>, <<"+=", 6, <<<<"b", 7>>, <<"k", 4>>, <<"t", 2>>>>>>, <<"rotl^", 7, 37, 6>>>>,   \* 947
    <<<<"+=", 2, <<<<"b", 1>>>>>>, <<"rotl^", 1, 33, 2>>>>,   \* 948
    <<<<"+=", 4, <<<<"b", 7>>>>>>, <<"rotl^", 7, 27, 4>>>>,   \* 949
    <<<<"+=", 6, <<<<"b", 5>>>>>>, <<"rotl^", 5, 14, 6>>>>,   \* 950
    <<<<"+=", 0, <<<<"b", 3>>>>>>, <<"rotl^", 3, 42, 0>>>>,   \* 951
    <<<<"+=", 4, <<<<"b", 1>>>>>>, <<"rotl^", 1, 17, 4>>>>,   \* 952
    <<<<"+=", 6, <<<<"b", 3>>>>>>, <<"rotl^", 3, 49, 6>>>>,   \* 953
    <<<<"+=", 0, <<<<"b", 5>>>>>>, <<"rotl^", 5, 36, 0>>>>,   \* 954
    <<<<"+=", 2, <<<<"b", 7>>>>>>, <<"rotl^", 7, 39, 2>>>>,   \* 955
    <<<<"+=", 6, <<<<"b", 1>>>>>>, <<"rotl^", 1, 44, 6>>>>,   \* 956
    <<<<"+=", 0, <<<<"b", 7>>>>>>, <<"rotl^", 7, 9, 0>>>>,   \* 957
    <<<<"+=", 2, <<<<"b", 5>>>>>>, <<"rotl^", 5, 54, 2>>>>,   \* 958
    <<<<"+=", 4, <<<<"b", 3>>>>>>, <<"rotl^", 3, 56, 4>>>>   \* 959
   >>,
   <<
    <<<<"+=", 1, <<<<"k", 0>>>>>>, <<"+=", 0, <<<<"b", 1>>, <<"k", 8>>>>>>, <<"rotl^", 1, 39, 0>>>>,   \* 960
    <<<<"+=", 3, <<<<"k", 2>>>>>>, <<"+=", 2, <<<<"b", 3>>, <<"k", 1>>>>>>, <<"rotl^", 3, 30, 2>>>>,   \* 961
    <<<<"+=", 5, <<<<"k", 4>>, <<"t", 2>>>>>>, <<"+=", 4, <<<<"b", 5>>, <<"k", 3>>>>>>, <<"rotl^", 5, 34, 4>>>>,   \* 962
    <<<<"+=", 7, <<<<"k", 6>>, <<"n", 17>>>>>>, <<"+=", 6, <<<<"b", 7>>, <<"k", 5>>, <<"t", 0>>>>>>, <<"rotl^", 7, 24, 6>>>>,   \* 963
    <<<<"+=", 2, <<<<"b", 1>>>>>>, <<"rotl^", 1, 13, 2>>>>,   \* 964
    <<<<"+=", 4, <<<<"b", 7>>>>>>, <<"rotl^", 7, 50, 4>>>>,   \* 965
    <<<<"+=", 6, <<<<"b", 5>>>>>>, <<"rotl^", 5, 10, 6>>>>,   \* 966
    <<<<"+=", 0, <<<<"b", 3>>>>>>, <<"rotl^", 3, 17, 0>>>>,   \* 967
    <<<<"+=", 4, <<<<"b", 1>>>>>>, <<"rotl^", 1, 25, 4>>>>,   \* 968
    <<<<"+=", 6, <<<<"b", 3>>>>>>, <<"rotl^", 3, 29, 6>>>>,   \* 969
    <<<<"+=", 0, <<<<"b", 5>>>>>>, <<"rotl^", 5, 39, 0>>>>,   \* 970
    <<<<"+=", 2, <<<<"b", 7>>>>>>, <<"rotl^", 7, 43, 2>>>>,   \* 971
    <<<<"+=", 6, <<<<"b", 1>>>>>>, <<"rotl^", 1, 8, 6>>>>,   \* 972
    <<<<"+=", 0, <<<<"b", 7>>>>>>, <<"rotl^", 7, 35, 0>>>>,   \* 973
    <<<<"+=", 2, <<<<"b", 5>>>>>>, <<"rotl^", 5, 56, 2>>>>,   \* 974
    <<<<"+=", 4, <<<<"b", 3>>>>>>, <<"rotl^", 3, 22, 4>>>>   \* 975
   >>,
   <<
    <<<<"out", 0, <<<<"b", 0>>, <<"k", 0>>>>>>>>,   \* 977
    <<<<"out", 1, <<<<"b", 1>>, <<"k", 1>>>>>>>>,   \* 978
    <<<<"out", 2, <<<<"b", 2>>, <<"k", 2>>>>>>>>,   \* 979
    <<<<"out", 3, <<<<"b", 3>>, <<"k", 3>>>>>>>>,   \* 980
    <<<<"out", 4, <<<<"b", 4>>, <<"k", 4>>>>>>>>,   \* 981
    <<<<"out", 5, <<<<"b", 5>>, <<"k", 5>>, <<"t", 0>>>>>>>>,   \* 982
    <<<<"out", 6, <<<<"b", 6>>, <<"k", 6>>, <<"t", 1>>>>>>>>,   \* 983
    <<<<"out", 7, <<<<"b", 7>>, <<"k", 7>>, <<"n", 18>>>>>>>>   \* 984
   >>
  >>

(* func (tf *threefish512) encrypt(input, output []uint64): output afterwards *)
encrypt512(tf, input, output) ==
  Run(tf, encrypt512Code, CIPHER_QWORDS_512, input, output)

(* The statements of func (tf *threefish512) decrypt(input, output []uint64),
   threefish.go lines 987-1311, after its loads of b0.., k0.., t0..: one tuple per
   source line, its line number at the end, the lines grouped by key-injection cycle. *)
decrypt512Code ==
  <<
   <<
    <<<<"-=", 0, <<<<"k", 0>>>>>>>>,   \* 1006
    <<<<"-=", 1, <<<<"k", 1>>>>>>>>,   \* 1007
    <<<<"-=", 2, <<<<"k", 2>>>>>>>>,   \* 1008
    <<<<"-=", 3, <<<<"k", 3>>>>>>>>,   \* 1009
    <<<<"-=", 4, <<<<"k", 4>>>>>>>>,   \* 1010
    <<<<"-=", 5, <<<<"k", 5>>, <<"t", 0>>>>>>>>,   \* 1011
    <<<<"-=", 6, <<<<"k", 6>>, <<"t", 1>>>>>>>>,   \* 1012
    <<<<"-=", 7, <<<<"k", 7>>, <<"n", 18>>>>>>>>   \* 1013
   >>,
   <<
    <<<<"^", 3, 4>>, <<"rotr", 3, 22>>, <<"-=", 4, <<<<"b", 3>>>>>>>>,   \* 1014
    <<<<"^", 5, 2>>, <<"rotr", 5, 56>>, <<"-=", 2, <<<<"b", 5>>>>>>>>,   \* 1015
    <<<<"^", 7, 0>>, <<"rotr", 7, 35>>, <<"-=", 0, <<<<"b", 7>>>>>>>>,   \* 1016
    <<<<"^", 1, 6>>, <<"rotr", 1, 8>>, <<"-=", 6, <<<<"b", 1>>>>>>>>,   \* 1017
    <<<<"^", 7, 2>>, <<"rotr", 7, 43>>, <<"-=", 2, <<<<"b", 7>>>>>>>>,   \* 1018
    <<<<"^", 5, 0>>, <<"rotr", 5, 39>>, <<"-=", 0, <<<<"b", 5>>>>>>>>,   \* 1019
    <<<<"^", 3, 6>>, <<"rotr", 3, 29>>, <<"-=", 6, <<<<"b", 3>>>>>>>>,   \* 1020
    <<<<"^", 1, 4>>, <<"rotr", 1, 25>>, <<"-=", 4, <<<<"b", 1>>>>>>>>,   \* 1021
    <<<<"^", 3, 0>>, <<"rotr", 3, 17>>, <<"-=", 0, <<<<"b", 3>>>>>>>>,   \* 1022
    <<<<"^", 5, 6>>, <<"rotr", 5, 10>>, <<"-=", 6, <<<<"b", 5>>>>>>>>,   \* 1023
    <<<<"^", 7, 4>>, <<"rotr", 7, 50>>, <<"-=", 4, <<<<"b", 7>>>>>>>>,   \* 1024
    <<<<"^", 1, 2>>, <<"rotr", 1, 13>>, <<"-=", 2, <<<<"b", 1>>>>>>>>,   \* 1025
    <<<<"^", 7, 6>>, <<"rotr", 7, 24>>, <<"-=", 6, <<<<"b", 7>>, <<"k", 5>>, <<"t", 0>>>>>>, <<"-=", 7, <<<<"k", 6>>, <<"n", 17>>>>>>>>,   \* 1026
    <<<<"^", 5, 4>>, <<"rotr", 5, 34>>, <<"-=", 4, <<<<"b", 5>>, <<"k", 3>>>>>>, <<"-=", 5, <<<<"k", 4>>, <<"t", 2>>>>>>>>,   \* 1027
    <<<<"^", 3, 2>>, <<"rotr", 3, 30>>, <<"-=", 2, <<<<"b", 3>>, <<"k", 1>>>>>>, <<"-=", 3, <<<<"k", 2>>>>>>>>,   \* 1028
    <<<<"^", 1, 0>>, <<"rotr", 1, 39>>, <<"-=", 0, <<<<"b", 1>>, <<"k", 8>>>>>>, <<"-=", 1, <<<<"k", 0>>>>>>>>   \* 1029
   >>,
   <<
    <<<<"^", 3, 4>>, <<"rotr", 3, 56>>, <<"-=", 4, <<<<"b", 3>>>>>>>>,   \* 1030
    <<<<"^", 5, 2>>, <<"rotr", 5, 54>>, <<"-=", 2, <<<<"b", 5>>>>>>>>,   \* 1031
    <<<<"^", 7, 0>>, <<"rotr", 7, 9>>, <<"-=", 0, <<<<"b", 7>>>>>>>>,   \* 1032
    <<<<"^", 1, 6>>, <<"rotr", 1, 44>>, <<"-=", 6, <<<<"b", 1>>>>>>>>,   \* 1033
    <<<<"^", 7, 2>>, <<"rotr", 7, 39>>, <<"-=", 2, <<<<"b", 7>>>>>>>>,   \* 1034
    <<<<"^", 5, 0>>, <<"rotr", 5, 36>>, <<"-=", 0, <<<<"b", 5>>>>>>>>,   \* 1035
    <<<<"^", 3, 6>>, <<"rotr", 3, 49>>, <<"-=", 6, <<<<"b", 3>>>>>>>>,   \* 1036
    <<<<"^", 1, 4>>, <<"rotr", 1, 17>>, <<"-=", 4, <<<<"b", 1>>>>>>>>,   \* 1037
    <<<<"^", 3, 0>>, <<"rotr", 3, 42>>, <<"-=", 0, <<<<"b", 3>>>>>>>>,   \* 1038
    <<<<"^", 5, 6>>, <<"rotr", 5, 14>>, <<"-=", 6, <<<<"b", 5>>>>>>>>,   \* 1039
    <<<<"^", 7, 4>>, <<"rotr", 7, 27>>, <<"-=", 4, <<<<"b", 7>>>>>>>>,   \* 1040
    <<<<"^", 1, 2>>, <<"rotr", 1, 33>>, <<"-=", 2, <<<<"b", 1>>>>>>>>,   \* 1041
    <<<<"^", 7, 6>>, <<"rotr", 7, 37>>, <<"-=", 6, <<<<"b", 7>>, <<"k", 4>>, <<"t", 2>>>>>>, <<"-=", 7, <<<<"k", 5>>, <<"n", 16>>>>>>>>,   \* 1042
    <<<<"^", 5, 4>>, <<"rotr", 5, 19>>, <<"-=", 4, <<<<"b", 5>>, <<"k", 2>>>>>>, <<"-=", 5, <<<<"k", 3>>, <<"t", 1>>>>>>>>,   \* 1043
    <<<<"^", 3, 2>>, <<"rotr", 3, 36>>, <<"-=", 2, <<<<"b", 3>>, <<"k", 0>>>>>>, <<"-=", 3, <<<<"k", 1>>>>>>>>,   \* 1044
    <<<<"^", 1, 0>>, <<"rotr", 1, 46>>, <<"-=", 0, <<<<"b", 1>>, <<"k", 7>>>>>>, <<"-=", 1, <<<<"k", 8>>>>>>>>   \* 1045
   >>,
   <<
    <<<<"^", 3, 4>>, <<"rotr", 3, 22>>, <<"-=", 4, <<<<"b", 3>>>>>>>>,   \* 1046
    <<<<"^", 5, 2>>, <<"rotr", 5, 56>>, <<"-=", 2, <<<<"b", 5>>>>>>>>,   \* 1047
    <<<<"^", 7, 0>>, <<"rotr", 7, 35>>, <<"-=", 0, <<<<"b", 7>>>>>>>>,   \* 1048
    <<<<"^", 1, 6>>, <<"rotr", 1, 8>>, <<"-=", 6, <<<<"b", 1>>>>>>>>,   \* 1049
    <<<<"^", 7, 2>>, <<"rotr", 7, 43>>, <<"-=", 2, <<<<"b", 7>>>>>>>>,   \* 1050
    <<<<"^", 5, 0>>, <<"rotr", 5, 39>>, <<"-=", 0, <<<<"b", 5>>>>>>>>,   \* 1051
    <<<<"^", 3, 6>>, <<"rotr", 3, 29>>, <<"-=", 6, <<<<"b", 3>>>>>>>>,   \* 1052
    <<<<"^", 1, 4>>, <<"rotr", 1, 25>>, <<"-=", 4, <<<<"b", 1>>>>>>>>,   \* 1053
    <<<<"^", 3, 0>>, <<"rotr", 3, 17>>, <<"-=", 0, <<<<"b", 3>>>>>>>>,   \* 1054
    <<<<"^", 5, 6>>, <<"rotr", 5, 10>>, <<"-=", 6, <<<<"b", 5>>>>>>>>,   \* 1055
    <<<<"^", 7, 4>>, <<"rotr", 7, 50>>, <<"-=", 4, <<<<"b", 7>>>>>>>>,   \* 1056
    <<<<"^", 1, 2>>, <<"rotr", 1, 13>>, <<"-=", 2, <<<<"b", 1>>>>>>>>,   \* 1057
    <<<<"^", 7, 6>>, <<"rotr", 7, 24>>, <<"-=", 6, <<<<"b", 7>>, <<"k", 3>>, <<"t", 1>>>>>>, <<"-=", 7, <<<<"k", 4>>, <<"n", 15>>>>>>>>,   \* 1058
    <<<<"^", 5, 4>>, <<"rotr", 5, 34>>, <<"-=", 4, <<<<"b", 5>>, <<"k", 1>>>>>>, <<"-=", 5, <<<<"k", 2>>, <<"t", 0>>>>>>>>,   \* 1059
    <<<<"^", 3, 2>>, <<"rotr", 3, 30>>, <<"-=", 2, <<<<"b", 3>>, <<"k", 8>>>>>>, <<"-=", 3, <<<<"k", 0>>>>>>>>,   \* 1060
    <<<<"^", 1, 0>>, <<"rotr", 1, 39>>, <<"-=", 0, <<<<"b", 1>>, <<"k", 6>>>>>>, <<"-=", 1, <<<<"k", 7>>>>>>>>   \* 1061
   >>,
   <<
    <<<<"^", 3, 4>>, <<"rotr", 3, 56>>, <<"-=", 4, <<<<"b", 3>>>>>>>>,   \* 1062
    <<<<"^", 5, 2>>, <<"rotr", 5, 54>>, <<"-=", 2, <<<<"b", 5>>>>>>>>,   \* 1063
    <<<<"^", 7, 0>>, <<"rotr", 7, 9>>, <<"-=", 0, <<<<"b", 7>>>>>>>>,   \* 1064
    <<<<"^", 1, 6>>, <<"rotr", 1, 44>>, <<"-=", 6, <<<<"b", 1>>>>>>>>,   \* 1065
    <<<<"^", 7, 2>>, <<"rotr", 7, 39>>, <<"-=", 2, <<<<"b", 7>>>>>>>>,   \* 1066
    <<<<"^", 5, 0>>, <<"rotr", 5, 36>>, <<"-=", 0, <<<<"b", 5>>>>>>>>,   \* 1067
    <<<<"^", 3, 6>>, <<"rotr", 3, 49>>, <<"-=", 6, <<<<"b", 3>>>>>>>>,   \* 1068
    <<<<"^", 1, 4>>, <<"rotr", 1, 17>>, <<"-=", 4, <<<<"b", 1>>>>>>>>,   \* 1069
    <<<<"^", 3, 0>>, <<"rotr", 3, 42>>, <<"-=", 0, <<<<"b", 3>>>>>>>>,   \* 1070
    <<<<"^", 5, 6>>, <<"rotr", 5, 14>>, <<"-=", 6, <<<<"b", 5>>>>>>>>,   \* 1071
    <<<<"^", 7, 4>>, <<"rotr", 7, 27>>, <<"-=", 4, <<<<"b", 7>>>>>>>>,   \* 1072
    <<<<"^", 1, 2>>, <<"rotr", 1, 33>>, <<"-=", 2, <<<<"b", 1>>>>>>>>,   \* 1073
    <<<<"^", 7, 6>>, <<"rotr", 7, 37>>, <<"-=", 6, <<<<"b", 7>>, <<"k", 2>>, <<"t", 0>>>>>>, <<"-=", 7, <<<<"k", 3>>, <<"n", 14>>>>>>>>,   \* 1074
    <<<<"^", 5, 4>>, <<"rotr", 5, 19>>, <<"-=", 4, <<<<"b", 5>>, <<"k", 0>>>>>>, <<"-=", 5, <<<<"k", 1>>, <<"t", 2>>>>>>>>,   \* 1075
    <<<<"^", 3, 2>>, <<"rotr", 3, 36>>, <<"-=", 2, <<<<"b", 3>>, <<"k", 7>>>>>>, <<"-=", 3, <<<<"k", 8>>>>>>>>,   \* 1076
    <<<<"^", 1, 0>>, <<"rotr", 1, 46>>, <<"-=", 0, <<<<"b", 1>>, <<"k", 5>>>>>>, <<"-=", 1, <<<<"k", 6>>>>>>>>   \* 1077
   >>,
   <<
    <<<<"^", 3, 4>>, <<"rotr", 3, 22>>, <<"-=", 4, <<<<"b", 3>>>>>>>>,   \* 1078
    <<<<"^", 5, 2>>, <<"rotr", 5, 56>>, <<"-=", 2, <<<<"b", 5>>>>>>>>,   \* 1079
    <<<<"^", 7, 0>>, <<"rotr", 7, 35>>, <<"-=", 0, <<<<"b", 7>>>>>>>>,   \* 1080
    <<<<"^", 1, 6>>, <<"rotr", 1, 8>>, <<"-=", 6, <<<<"b", 1>>>>>>>>,   \* 1081
    <<<<"^", 7, 2>>, <<"rotr", 7, 43>>, <<"-=", 2, <<<<"b", 7>>>>>>>>,   \* 1082
    <<<<"^", 5, 0>>, <<"rotr", 5, 39>>, <<"-=", 0, <<<<"b", 5>>>>>>>>,   \* 1083
    <<<<"^", 3, 6>>, <<"rotr", 3, 29>>, <<"-=", 6, <<<<"b", 3>>>>>>>>,   \* 1084
    <<<<"^", 1, 4>>, <<"rotr", 1, 25>>, <<"-=", 4, <<<<"b", 1>>>>>>>>,   \* 1085
    <<<<"^", 3, 0>>, <<"rotr", 3, 17>>, <<"-=", 0, <<<<"b", 3>>>>>>>>,   \* 1086
    <<<<"^", 5, 6>>, <<"rotr", 5, 10>>, <<"-=", 6, <<<<"b", 5>>>>>>>>,   \* 1087
    <<<<"^", 7, 4>>, <<"rotr", 7, 50>>, <<"-=", 4, <<<<"b", 7>>>>>>>>,   \* 1088
    <<<<"^", 1, 2>>, <<"rotr", 1, 13>>, <<"-=", 2, <<<<"b", 1>>>>>>>>,   \* 1089
    <<<<"^", 7, 6>>, <<"rotr", 7, 24>>, <<"-=", 6, <<<<"b", 7>>, <<"k", 1>>, <<"t", 2>>>>>>, <<"-=", 7, <<<<"k", 2>>, <<"n", 13>>>>>>>>,   \* 1090
    <<<<"^", 5, 4>>, <<"rotr", 5, 34>>, <<"-=", 4, <<<<"b", 5>>, <<"k", 8>>>>>>, <<"-=", 5, <<<<"k", 0>>, <<"t", 1>>>>>>>>,   \* 1091
    <<<<"^", 3, 2>>, <<"rotr", 3, 30>>, <<"-=", 2, <<<<"b", 3>>, <<"k", 6>>>>>>, <<"-=", 3, <<<<"k", 7>>>>>>>>,   \* 1092
    <<<<"^", 1, 0>>, <<"rotr", 1, 39>>, <<"-=", 0, <<<<"b", 1>>, <<"k", 4>>>>>>, <<"-=", 1, <<<<"k", 5>>>>>>>>   \* 1093
   >>,
   <<
    <<<<"^", 3, 4>>, <<"rotr", 3, 56>>, <<"-=", 4, <<<<"b", 3>>>>>>>>,   \* 1094
    <<<<"^", 5, 2>>, <<"rotr", 5, 54>>, <<"-=", 2, <<<<"b", 5>>>>>>>>,   \* 1095
    <<<<"^", 7, 0>>, <<"rotr", 7, 9>>, <<"-=", 0, <<<<"b", 7>>>>>>>>,   \* 1096
    <<<<"^", 1, 6>>, <<"rotr", 1, 44>>, <<"-=", 6, <<<<"b", 1>>>>>>>>,   \* 1097
    <<<<"^", 7, 2>>, <<"rotr", 7, 39>>, <<"-=", 2, <<<<"b", 7>>>>>>>>,   \* 1098
    <<<<"^", 5, 0>>, <<"rotr", 5, 36>>, <<"-=", 0, <<<<"b", 5>>>>>>>>,   \* 1099
    <<<<"^", 3, 6>>, <<"rotr", 3, 49>>, <<"-=", 6, <<<<"b", 3>>>>>>>>,   \* 1100
    <<<<"^", 1, 4>>, <<"rotr", 1, 17>>, <<"-=", 4, <<<<"b", 1>>>>>>>>,   \* 1101
    <<<<"^", 3, 0>>, <<"rotr", 3, 42>>, <<"-=", 0, <<<<"b", 3>>>>>>>>,   \* 1102
    <<<<"^", 5, 6>>, <<"rotr", 5, 14>>, <<"-=", 6, <<<<"b", 5>>>>>>>>,   \* 1103
    <<<<"^", 7, 4>>, <<"rotr", 7, 27>>, <<"-=", 4, <<<<"b", 7>>>>>>>>,   \* 1104
    <<<<"^", 1, 2>>, <<"rotr", 1, 33>>, <<"-=", 2, <<<<"b", 1>>>>>>>>,   \* 1105
    <<<<"^", 7, 6>>, <<"rotr", 7, 37>>, <<"-=", 6, <<<<"b", 7>>, <<"k", 0>>, <<"t", 1>>>>>>, <<"-=", 7, <<<<"k", 1>>, <<"n", 12>>>>>>>>,   \* 1106
    <<<<"^", 5, 4>>, <<"rotr", 5, 19>>, <<"-=", 4, <<<<"b", 5>>, <<"k", 7>>>>>>, <<"-=", 5, <<<<"k", 8>>, <<"t", 0>>>>>>>>,   \* 1107
    <<<<"^", 3, 2>>, <<"rotr", 3, 36>>, <<"-=", 2, <<<<"b", 3>>, <<"k", 5>>>>>>, <<"-=", 3, <<<<"k", 6>>>>>>>>,   \* 1108
    <<<<"^", 1, 0>>, <<"rotr", 1, 46>>, <<"-=", 0, <<<<"b", 1>>, <<"k", 3>>>>>>, <<"-=", 1, <<<<"k", 4>>>>>>>>   \* 1109
   >>,
   <<
    <<<<"^", 3, 4>>, <<"rotr", 3, 22>>, <<"-=", 4, <<<<"b", 3>>>>>>>>,   \* 1110
    <<<<"^", 5, 2>>, <<"rotr", 5, 56>>, <<"-=", 2, <<<<"b", 5>>>>>>>>,   \* 1111
    <<<<"^", 7, 0>>, <<"rotr", 7, 35>>, <<"-=", 0, <<<<"b", 7>>>>>>>>,   \* 1112
    <<<<"^", 1, 6>>, <<"rotr", 1, 8>>, <<"-=", 6, <<<<"b", 1>>>>>>>>,   \* 1113
    <<<<"^", 7, 2>>, <<"rotr", 7, 43>>, <<"-=", 2, <<<<"b", 7>>>>>>>>,   \* 1114
    <<<<"^", 5, 0>>, <<"rotr", 5, 39>>, <<"-=", 0, <<<<"b", 5>>>>>>>>,   \* 1115
    <<<<"^", 3, 6>>, <<"rotr", 3, 29>>, <<"-=", 6, <<<<"b", 3>>>>>>>>,   \* 1116
    <<<<"^", 1, 4>>, <<"rotr", 1, 25>>, <<"-=", 4, <<<<"b", 1>>>>>>>>,   \* 1117
    <<<<"^", 3, 0>>, <<"rotr", 3, 17>>, <<"-=", 0, <<<<"b", 3>>>>>>>>,   \* 1118
    <<<<"^", 5, 6>>, <<"rotr", 5, 10>>, <<"-=", 6, <<<<"b", 5>>>>>>>>,   \* 1119
    <<<<"^", 7, 4>>, <<"rotr", 7, 50>>, <<"-=", 4, <<<<"b", 7>>>>>>>>,   \* 1120
    <<<<"^", 1, 2>>, <<"rotr", 1, 13>>, <<"-=", 2, <<<<"b", 1>>>>>>>>,   \* 1121
    <<<<"^", 7, 6>>, <<"rotr", 7, 24>>, <<"-=", 6, <<<<"b", 7>>, <<"k", 8>>, <<"t", 0>>>>>>, <<"-=", 7, <<<<"k", 0>>, <<"n", 11>>>>>>>>,   \* 1122
    <<<<"^", 5, 4>>, <<"rotr", 5, 34>>, <<"-=", 4, <<<<"b", 5>>, <<"k", 6>>>>>>, <<"-=", 5, <<<<"k", 7>>, <<"t", 2>>>>>>>>,   \* 1123
    <<<<"^", 3, 2>>, <<"rotr", 3, 30>>, <<"-=", 2, <<<<"b", 3>>, <<"k", 4>>>>>>, <<"-=", 3, <<<<"k", 5>>>>>>>>,   \* 1124
    <<<<"^", 1, 0>>, <<"rotr", 1, 39>>, <<"-=", 0, <<<<"b", 1>>, <<"k", 2>>>>>>, <<"-=", 1, <<<<"k", 3>>>>>>>>   \* 1125
   >>,
   <<
    <<<<"^", 3, 4>>, <<"rotr", 3, 56>>, <<"-=", 4, <<<<"b", 3>>>>>>>>,   \* 1126
    <<<<"^", 5, 2>>, <<"rotr", 5, 54>>, <<"-=", 2, <<<<"b", 5>>>>>>>>,   \* 1127
    <<<<"^", 7, 0>>, <<"rotr", 7, 9>>, <<"-=", 0, <<<<"b", 7>>>>>>>>,   \* 1128
    <<<<"^", 1, 6>>, <<"rotr", 1, 44>>, <<"-=", 6, <<<<"b", 1>>>>>>>>,   \* 1129
    <<<<"^", 7, 2>>, <<"rotr", 7, 39>>, <<"-=", 2, <<<<"b", 7>>>>>>>>,   \* 1130
    <<<<"^", 5, 0>>, <<"rotr", 5, 36>>, <<"-=", 0, <<<<"b", 5>>>>>>>>,   \* 1131
    <<<<"^", 3, 6>>, <<"rotr", 3, 49>>, <<"-=", 6, <<<<"b", 3>>>>>>>>,   \* 1132
    <<<<"^", 1, 4>>, <<"rotr", 1, 17>>, <<"-=", 4, <<<<"b", 1>>>>>>>>,   \* 1133
    <<<<"^", 3, 0>>, <<"rotr", 3, 42>>, <<"-=", 0, <<<<"b", 3>>>>>>>>,   \* 1134
    <<<<"^", 5, 6>>, <<"rotr", 5, 14>>, <<"-=", 6, <<<<"b", 5>>>>>>>>,   \* 1135
    <<<<"^", 7, 4>>, <<"rotr", 7, 27>>, <<"-=", 4, <<<<"b", 7>>>>>>>>,   \* 1136
    <<<<"^", 1, 2>>, <<"rotr", 1, 33>>, <<"-=", 2, <<<<"b", 1>>>>>>>>,   \* 1137
    <<<<"^", 7, 6>>, <<"rotr", 7, 37>>, <<"-=", 6, <<<<"b", 7>>, <<"k", 7>>, <<"t", 2>>>>>>, <<"-=", 7, <<<<"k", 8>>, <<"n", 10>>>>>>>>,   \* 1138
    <<<<"^", 5, 4>>, <<"rotr", 5, 19>>, <<"-=", 4, <<<<"b", 5>>, <<"k", 5>>>>>>, <<"-=", 5, <<<<"k", 6>>, <<"t", 1>>>>>>>>,   \* 1139
    <<<<"^", 3, 2>>, <<"rotr", 3, 36>>, <<"-=", 2, <<<<"b", 3>>, <<"k", 3>>>>>>, <<"-=", 3, <<<<"k", 4>>>>>>>>,   \* 1140
    <<<<"^", 1, 0>>, <<"rotr", 1, 46>>, <<"-=", 0, <<<<"b", 1>>, <<"k", 1>>>>>>, <<"-=", 1, <<<<"k", 2>>>>>>>>   \* 1141
   >>,
   <<
    <<<<"^", 3, 4>>, <<"rotr", 3, 22>>, <<"-=", 4, <<<<"b", 3>>>>>>>>,   \* 1142
    <<<<"^", 5, 2>>, <<"rotr", 5, 56>>, <<"-=", 2, <<<<"b", 5>>>>>>>>,   \* 1143
    <<<<"^", 7, 0>>, <<"rotr", 7, 35>>, <<"-=", 0, <<<<"b", 7>>>>>>>>,   \* 1144
    <<<<"^", 1, 6>>, <<"rotr", 1, 8>>, <<"-=", 6, <<<<"b", 1>>>>>>>>,   \* 1145
    <<<<"^", 7, 2>>, <<"rotr", 7, 43>>, <<"-=", 2, <<<<"b", 7>>>>>>>>,   \* 1146
    <<<<"^", 5, 0>>, <<"rotr", 5, 39>>, <<"-=", 0, <<<<"b", 5>>>>>>>>,   \* 1147
    <<<<"^", 3, 6>>, <<"rotr", 3, 29>>, <<"-=", 6, <<<<"b", 3>>>>>>>>,   \* 1148
    <<<<"^", 1, 4>>, <<"rotr", 1, 25>>, <<"-=", 4, <<<<"b", 1>>>>>>>>,   \* 1149
    <<<<"^", 3, 0>>, <<"rotr", 3, 17>>, <<"-=", 0, <<<<"b", 3>>>>>>>>,   \* 1150
    <<<<"^", 5, 6>>, <<"rotr", 5, 10>>, <<"-=", 6, <<<<"b", 5>>>>>>>>,   \* 1151
    <<<<"^", 7, 4>>, <<"rotr", 7, 50>>, <<"-=", 4, <<<<"b", 7>>>>>>>>,   \* 1152
    <<<<"^", 1, 2>>, <<"rotr", 1, 13>>, <<"-=", 2, <<<<"b", 1>>>>>>>>,   \* 1153
    <<<<"^", 7, 6>>, <<"rotr", 7, 24>>, <<"-=", 6, <<<<"b", 7>>, <<"k", 6>>, <<"t", 1>>>>>>, <<"-=", 7, <<<<"k", 7>>, <<"n", 9>>>>>>>>,   \* 1154
    <<<<"^", 5, 4>>, <<"rotr", 5, 34>>, <<"-=", 4, <<<<"b", 5>>, <<"k", 4>>>>>>, <<"-=", 5, <<<<"k", 5>>, <<"t", 0>>>>>>>>,   \* 1155
    <<<<"^", 3, 2>>, <<"rotr", 3, 30>>, <<"-=", 2, <<<<"b", 3>>, <<"k", 2>>>>>>, <<"-=", 3, <<<<"k", 3>>>>>>>>,   \* 1156
    <<<<"^", 1, 0>>, <<"rotr", 1, 39>>, <<"-=", 0, <<<<"b", 1>>, <<"k", 0>>>>>>, <<"-=", 1, <<<<"k", 1>>>>>>>>   \* 1157
   >>,
   <<
    <<<<"^", 3, 4>>, <<"rotr", 3, 56>>, <<"-=", 4, <<<<"b", 3>>>>>>>>,   \* 1158
    <<<<"^", 5, 2>>, <<"rotr", 5, 54>>, <<"-=", 2, <<<<"b", 5>>>>>>>>,   \* 1159
    <<<<"^", 7, 0>>, <<"rotr", 7, 9>>, <<"-=", 0, <<<<"b", 7>>>>>>>>,   \* 1160
    <<<<"^", 1, 6>>, <<"rotr", 1, 44>>, <<"-=", 6, <<<<"b", 1>>>>>>>>,   \* 1161
    <<<<"^", 7, 2>>, <<"rotr", 7, 39>>, <<"-=", 2, <<<<"b", 7>>>>>>>>,   \* 1162
    <<<<"^", 5, 0>>, <<"rotr", 5, 36>>, <<"-=", 0, <<<<"b", 5>>>>>>>>,   \* 1163
    <<<<"^", 3, 6>>, <<"rotr", 3, 49>>, <<"-=", 6, <<<<"b", 3>>>>>>>>,   \* 1164
    <<<<"^", 1, 4>>, <<"rotr", 1, 17>>, <<"-=", 4, <<<<"b", 1>>>>>>>>,   \* 1165
    <<<<"^", 3, 0>>, <<"rotr", 3, 42>>, <<"-=", 0, <<<<"b", 3>>>>>>>>,   \* 1166
    <<<<"^", 5, 6>>, <<"rotr", 5, 14>>, <<"-=", 6, <<<<"b", 5>>>>>>>>,   \* 1167
    <<<<"^", 7, 4>>, <<"rotr", 7, 27>>, <<"-=", 4, <<<<"b", 7>>>>>>>>,   \* 1168
    <<<<"^", 1, 2>>, <<"rotr", 1, 33>>, <<"-=", 2, <<<<"b", 1>>>>>>>>,   \* 1169
    <<<<"^", 7, 6>>, <<"rotr", 7, 37>>, <<"-=", 6, <<<<"b", 7>>, <<"k", 5>>, <<"t", 0>>>>>>, <<"-=", 7, <<<<"k", 6>>, <<"n", 8>>>>>>>>,   \* 1170
    <<<<"^", 5, 4>>, <<"rotr", 5, 19>>, <<"-=", 4, <<<<"b", 5>>, <<"k", 3>>>>>>, <<"-=", 5, <<<<"k", 4>>, <<"t", 2>>>>>>>>,   \* 1171
    <<<<"^", 3, 2>>, <<"rotr", 3, 36>>, <<"-=", 2, <<<<"b", 3>>, <<"k", 1>>>>>>, <<"-=", 3, <<<<"k", 2>>>>>>>>,   \* 1172
    <<<<"^", 1, 0>>, <<"rotr", 1, 46>>, <<"-=", 0, <<<<"b", 1>>, <<"k", 8>>>>>>, <<"-=", 1, <<<<"k", 0>>>>>>>>   \* 1173
   >>,
   <<
    <<<<"^", 3, 4>>, <<"rotr", 3, 22>>, <<"-=", 4, <<<<"b", 3>>>>>>>>,   \* 1174
    <<<<"^", 5, 2>>, <<"rotr", 5, 56>>, <<"-=", 2, <<<<"b", 5>>>>>>>>,   \* 1175
    <<<<"^", 7, 0>>, <<"rotr", 7, 35>>, <<"-=", 0, <<<<"b", 7>>>>>>>>,   \* 1176
    <<<<"^", 1, 6>>, <<"rotr", 1, 8>>, <<"-=", 6, <<<<"b", 1>>>>>>>>,   \* 1177
    <<<<"^", 7, 2>>, <<"rotr", 7, 43>>, <<"-=", 2, <<<<"b", 7>>>>>>>>,   \* 1178
    <<<<"^", 5, 0>>, <<"rotr", 5, 39>>, <<"-=", 0, <<<<"b", 5>>>>>>>>,   \* 1179
    <<<<"^", 3, 6>>, <<"rotr", 3, 29>>, <<"-=", 6, <<<<"b", 3>>>>>>>>,   \* 1180
    <<<<"^", 1, 4>>, <<"rotr", 1, 25>>, <<"-=", 4, <<<<"b", 1>>>>>>>>,   \* 1181
    <<<<"^", 3, 0>>, <<"rotr", 3, 17>>, <<"-=", 0, <<<<"b", 3>>>>>>>>,   \* 1182
    <<<<"^", 5, 6>>, <<"rotr", 5, 10>>, <<"-=", 6, <<<<"b", 5>>>>>>>>,   \* 1183
    <<<<"^", 7, 4>>, <<"rotr", 7, 50>>, <<"-=", 4, <<<<"b", 7>>>>>>>>,   \* 1184
    <<<<"^", 1, 2>>, <<"rotr", 1, 13>>, <<"-=", 2, <<<<"b", 1>>>>>>>>,   \* 1185
    <<<<"^", 7, 6>>, <<"rotr", 7, 24>>, <<"-=", 6, <<<<"b", 7>>, <<"k", 4>>, <<"t", 2>>>>>>, <<"-=", 7, <<<<"k", 5>>, <<"n", 7>>>>>>>>,   \* 1186
    <<<<"^", 5, 4>>, <<"rotr", 5, 34>>, <<"-=", 4, <<<<"b", 5>>, <<"k", 2>>>>>>, <<"-=", 5, <<<<"k", 3>>, <<"t", 1>>>>>>>>,   \* 1187
    <<<<"^", 3, 2>>, <<"rotr", 3, 30>>, <<"-=", 2, <<<<"b", 3>>, <<"k", 0>>>>>>, <<"-=", 3, <<<<"k", 1>>>>>>>>,   \* 1188
    <<<<"^", 1, 0>>, <<"rotr", 1, 39>>, <<"-=", 0, <<<<"b", 1>>, <<"k", 7>>>>>>, <<"-=", 1, <<<<"k", 8>>>>>>>>   \* 1189
   >>,
   <<
    <<<<"^", 3, 4>>, <<"rotr", 3, 56>>, <<"-=", 4, <<<<"b", 3>>>>>>>>,   \* 1190
    <<<<"^", 5, 2>>, <<"rotr", 5, 54>>, <<"-=", 2, <<<<"b", 5>>>>>>>>,   \* 1191
    <<<<"^", 7, 0>>, <<"rotr", 7, 9>>, <<"-=", 0, <<<<"b", 7>>>>>>>>,   \* 1192
    <<<<"^", 1, 6>>, <<"rotr", 1, 44>>, <<"-=", 6, <<<<"b", 1>>>>>>>>,   \* 1193
    <<<<"^", 7, 2>>, <<"rotr", 7, 39>>, <<"-=", 2, <<<<"b", 7>>>>>>>>,   \* 1194
    <<<<"^", 5, 0>>, <<"rotr", 5, 36>>, <<"-=", 0, <<<<"b", 5>>>>>>>>,   \* 1195
    <<<<"^", 3, 6>>, <<"rotr", 3, 49>>, <<"-=", 6, <<<<"b", 3>>>>>>>>,   \* 1196
    <<<<"^", 1, 4>>, <<"rotr", 1, 17>>, <<"-=", 4, <<<<"b", 1>>>>>>>>,   \* 1197
    <<<<"^", 3, 0>>, <<"rotr", 3, 42>>, <<"-=", 0, <<<<"b", 3>>>>>>>>,   \* 1198
    <<<<"^", 5, 6>>, <<"rotr", 5, 14>>, <<"-=", 6, <<<<"b", 5>>>>>>>>,   \* 1199
    <<<<"^", 7, 4>>, <<"rotr", 7, 27>>, <<"-=", 4, <<<<"b", 7>>>>>>>>,   \* 1200
    <<<<"^", 1, 2>>, <<"rotr", 1, 33>>, <<"-=", 2, <<<<"b", 1>>>>>>>>,   \* 1201
    <<<<"^", 7, 6>>, <<"rotr", 7, 37>>, <<"-=", 6, <<<<"b", 7>>, <<"k", 3>>, <<"t", 1>>>>>>, <<"-=", 7, <<<<"k", 4>>, <<"n", 6>>>>>>>>,   \* 1202
    <<<<"^", 5, 4>>, <<"rotr", 5, 19>>, <<"-=", 4, <<<<"b", 5>>, <<"k", 1>>>>>>, <<"-=", 5, <<<<"k", 2>>, <<"t", 0>>>>>>>>,   \* 1203
    <<<<"^", 3, 2>>, <<"rotr", 3, 36>>, <<"-=", 2, <<<<"b", 3>>, <<"k", 8>>>>>>, <<"-=", 3, <<<<"k", 0>>>>>>>>,   \* 1204
    <<<<"^", 1, 0>>, <<"rotr", 1, 46>>, <<"-=", 0, <<<<"b", 1>>, <<"k", 6>>>>>>, <<"-=", 1, <<<<"k", 7>>>>>>>>   \* 1205
   >>,
   <<
    <<<<"^", 3, 4>>, <<"rotr", 3, 22>>, <<"-=", 4, <<<<"b", 3>>>>>>>>,   \* 1206
    <<<<"^", 5, 2>>, <<"rotr", 5, 56>>, <<"-=", 2, <<<<"b", 5>>>>>>>>,   \* 1207
    <<<<"^", 7, 0>>, <<"rotr", 7, 35>>, <<"-=", 0, <<<<"b", 7>>>>>>>>,   \* 1208
    <<<<"^", 1, 6>>, <<"rotr", 1, 8>>, <<"-=", 6, <<<<"b", 1>>>>>>>>,   \* 1209
    <<<<"^", 7, 2>>, <<"rotr", 7, 43>>, <<"-=", 2, <<<<"b", 7>>>>>>>>,   \* 1210
    <<<<"^", 5, 0>>, <<"rotr", 5, 39>>, <<"-=", 0, <<<<"b", 5>>>>>>>>,   \* 1211
    <<<<"^", 3, 6>>, <<"rotr", 3, 29>>, <<"-=", 6, <<<<"b", 3>>>>>>>>,   \* 1212
    <<<<"^", 1, 4>>, <<"rotr", 1, 25>>, <<"-=", 4, <<<<"b", 1>>>>>>>>,   \* 1213
    <<<<"^", 3, 0>>, <<"rotr", 3, 17>>, <<"-=", 0, <<<<"b", 3>>>>>>>>,   \* 1214
    <<<<"^", 5, 6>>, <<"rotr", 5, 10>>, <<"-=", 6, <<<<"b", 5>>>>>>>>,   \* 1215
    <<<<"^", 7, 4>>, <<"rotr", 7, 50>>, <<"-=", 4, <<<<"b", 7>>>>>>>>,   \* 1216
    <<<<"^", 1, 2>>, <<"rotr", 1, 13>>, <<"-=", 2, <<<<"b", 1>>>>>>>>,   \* 1217
    <<<<"^", 7, 6>>, <<"rotr", 7, 24>>, <<"-=", 6, <<<<"b", 7>>, <<"k", 2>>, <<"t", 0>>>>>>, <<"-=", 7, <<<<"k", 3>>, <<"n", 5>>>>>>>>,   \* 1218
    <<<<"^", 5, 4>>, <<"rotr", 5, 34>>, <<"-=", 4, <<<<"b", 5>>, <<"k", 0>>>>>>, <<"-=", 5, <<<<"k", 1>>, <<"t", 2>>>>>>>>,   \* 1219
    <<<<"^", 3, 2>>, <<"rotr", 3, 30>>, <<"-=", 2, <<<<"b", 3>>, <<"k", 7>>>>>>, <<"-=", 3, <<<<"k", 8>>>>>>>>,   \* 1220
    <<<<"^", 1, 0>>, <<"rotr", 1, 39>>, <<"-=", 0, <<<<"b", 1>>, <<"k", 5>>>>>>, <<"-=", 1, <<<<"k", 6>>>>>>>>   \* 1221
   >>,
   <<
    <<<<"^", 3, 4>>, <<"rotr", 3, 56>>, <<"-=", 4, <<<<"b", 3>>>>>>>>,   \* 1222
    <<<<"^", 5, 2>>, <<"rotr", 5, 54>>, <<"-=", 2, <<<<"b", 5>>>>>>>>,   \* 1223
    <<<<"^", 7, 0>>, <<"rotr", 7, 9>>, <<"-=", 0, <<<<"b", 7>>>>>>>>,   \* 1224
    <<<<"^", 1, 6>>, <<"rotr", 1, 44>>, <<"-=", 6, <<<<"b", 1>>>>>>>>,   \* 1225
    <<<<"^", 7, 2>>, <<"rotr", 7, 39>>, <<"-=", 2, <<<<"b", 7>>>>>>>>,   \* 1226
    <<<<"^", 5, 0>>, <<"rotr", 5, 36>>, <<"-=", 0, <<<<"b", 5>>>>>>>>,   \* 1227
    <<<<"^", 3, 6>>, <<"rotr", 3, 49>>, <<"-=", 6, <<<<"b", 3>>>>>>>>,   \* 1228
    <<<<"^", 1, 4>>, <<"rotr", 1, 17>>, <<"-=", 4, <<<<"b", 1>>>>>>>>,   \* 1229
    <<<<"^", 3, 0>>, <<"rotr", 3, 42>>, <<"-=", 0, <<<<"b", 3>>>>>>>>,   \* 1230
    <<<<"^", 5, 6>>, <<"rotr", 5, 14>>, <<"-=", 6, <<<<"b", 5>>>>>>>>,   \* 1231
    <<<<"^", 7, 4>>, <<"rotr", 7, 27>>, <<"-=", 4, <<<<"b", 7>>>>>>>>,   \* 1232
    <<<<"^", 1, 2>>, <<"rotr", 1, 33>>, <<"-=", 2, <<<<"b", 1>>>>>>>>,   \* 1233
    <<<<"^", 7, 6>>, <<"rotr", 7, 37>>, <<"-=", 6, <<<<"b", 7>>, <<"k", 1>>, <<"t", 2>>>>>>, <<"-=", 7, <<<<"k", 2>>, <<"n", 4>>>>>>>>,   \* 1234
    <<<<"^", 5, 4>>, <<"rotr", 5, 19>>, <<"-=", 4, <<<<"b", 5>>, <<"k", 8>>>>>>, <<"-=", 5, <<<<"k", 0>>, <<"t", 1>>>>>>>>,   \* 1235
    <<<<"^", 3, 2>>, <<"rotr", 3, 36>>, <<"-=", 2, <<<<"b", 3>>, <<"k", 6>>>>>>, <<"-=", 3, <<<<"k", 7>>>>>>>>,   \* 1236
    <<<<"^", 1, 0>>, <<"rotr", 1, 46>>, <<"-=", 0, <<<<"b", 1>>, <<"k", 4>>>>>>, <<"-=", 1, <<<<"k", 5>>>>>>>>   \* 1237
   >>,
   <<
    <<<<"^", 3, 4>>, <<"rotr", 3, 22>>, <<"-=", 4, <<<<"b", 3>>>>>>>>,   \* 1238
    <<<<"^", 5, 2>>, <<"rotr", 5, 56>>, <<"-=", 2, <<<<"b", 5>>>>>>>>,   \* 1239
    <<<<"^", 7, 0>>, <<"rotr", 7, 35>>, <<"-=", 0, <<<<"b", 7>>>>>>>>,   \* 1240
    <<<<"^", 1, 6>>, <<"rotr", 1, 8>>, <<"-=", 6, <<<<"b", 1>>>>>>>>,   \* 1241
    <<<<"^", 7, 2>>, <<"rotr", 7, 43>>, <<"-=", 2, <<<<"b", 7>>>>>>>>,   \* 1242
    <<<<"^", 5, 0>>, <<"rotr", 5, 39>>, <<"-=", 0, <<<<"b", 5>>>>>>>>,   \* 1243
    <<<<"^", 3, 6>>, <<"rotr", 3, 29>>, <<"-=", 6, <<<<"b", 3>>>>>>>>,   \* 1244
    <<<<"^", 1, 4>>, <<"rotr", 1, 25>>, <<"-=", 4, <<<<"b", 1>>>>>>>>,   \* 1245
    <<<<"^", 3, 0>>, <<"rotr", 3, 17>>, <<"-=", 0, <<<<"b", 3>>>>>>>>,   \* 1246
    <<<<"^", 5, 6>>, <<"rotr", 5, 10>>, <<"-=", 6, <<<<"b", 5>>>>>>>>,   \* 1247
    <<<<"^", 7, 4>>, <<"rotr", 7, 50>>, <<"-=", 4, <<<<"b", 7>>>>>>>>,   \* 1248
    <<<<"^", 1, 2>>, <<"rotr", 1, 13>>, <<"-=", 2, <<<<"b", 1>>>>>>>>,   \* 1249
    <<<<"^", 7, 6>>, <<"rotr", 7, 24>>, <<"-=", 6, <<<<"b", 7>>, <<"k", 0>>, <<"t", 1>>>>>>, <<"-=", 7, <<<<"k", 1>>, <<"n", 3>>>>>>>>,   \* 1250
    <<<<"^", 5, 4>>, <<"rotr", 5, 34>>, <<"-=", 4, <<<<"b", 5>>, <<"k", 7>>>>>>, <<"-=", 5, <<<<"k", 8>>, <<"t", 0>>>>>>>>,   \* 1251
    <<<<"^", 3, 2>>, <<"rotr", 3, 30>>, <<"-=", 2, <<<<"b", 3>>, <<"k", 5>>>>>>, <<"-=", 3, <<<<"k", 6>>>>>>>>,   \* 1252
    <<<<"^", 1, 0>>, <<"rotr", 1, 39>>, <<"-=", 0, <<<<"b", 1>>, <<"k", 3>>>>>>, <<"-=", 1, <<<<"k", 4>>>>>>>>   \* 1253
   >>,
   <<
    <<<<"^", 3, 4>>, <<"rotr", 3, 56>>, <<"-=", 4, <<<<"b", 3>>>>>>>>,   \* 1254
    <<<<"^", 5, 2>>, <<"rotr", 5, 54>>, <<"-=", 2, <<<<"b", 5>>>>>>>>,   \* 1255
    <<<<"^", 7, 0>>, <<"rotr", 7, 9>>, <<"-=", 0, <<<<"b", 7>>>>>>>>,   \* 1256
    <<<<"^", 1, 6>>, <<"rotr", 1, 44>>, <<"-=", 6, <<<<"b", 1>>>>>>>>,   \* 1257
    <<<<"^", 7, 2>>, <<"rotr", 7, 39>>, <<"-=", 2, <<<<"b", 7>>>>>>>>,   \* 1258
    <<<<"^", 5, 0>>, <<"rotr", 5, 36>>, <<"-=", 0, <<<<"b", 5>>>>>>>>,   \* 1259
    <<<<"^", 3, 6>>, <<"rotr", 3, 49>>, <<"-=", 6, <<<<"b", 3>>>>>>>>,   \* 1260
    <<<<"^", 1, 4>>, <<"rotr", 1, 17>>, <<"-=", 4, <<<<"b", 1>>>>>>>>,   \* 1261
    <<<<"^", 3, 0>>, <<"rotr", 3, 42>>, <<"-=", 0, <<<<"b", 3>>>>>>>>,   \* 1262
    <<<<"^", 5, 6>>, <<"rotr", 5, 14>>, <<"-=", 6, <<<<"b", 5>>>>>>>>,   \* 1263
    <<<<"^", 7, 4>>, <<"rotr", 7, 27>>, <<"-=", 4, <<<<"b", 7>>>>>>>>,   \* 1264
    <<<<"^", 1, 2>>, <<"rotr", 1, 33>>, <<"-=", 2, <<<<"b", 1>>>>>>>>,   \* 1265
    <<<<"^", 7, 6>>, <<"rotr", 7, 37>>, <<"-=", 6, <<<<"b", 7>>, <<"k", 8>>, <<"t", 0>>>>>>, <<"-=", 7, <<<<"k", 0>>, <<"n", 2>>>>>>>>,   \* 1266
    <<<<"^", 5, 4>>, <<"rotr", 5, 19>>, <<"-=", 4, <<<<"b", 5>>, <<"k", 6>>>>>>, <<"-=", 5, <<<<"k", 7>>, <<"t", 2>>>>>>>>,   \* 1267
    <<<<"^", 3, 2>>, <<"rotr", 3, 36>>, <<"-=", 2, <<<<"b", 3>>, <<"k", 4>>>>>>, <<"-=", 3, <<<<"k", 5>>>>>>>>,   \* 1268
    <<<<"^", 1, 0>>, <<"rotr", 1, 46>>, <<"-=", 0, <<<<"b", 1>>, <<"k", 2>>>>>>, <<"-=", 1, <<<<"k", 3>>>>>>>>   \* 1269
   >>,
   <<
    <<<<"^", 3, 4>>, <<"rotr", 3, 22>>, <<"-=", 4, <<<<"b", 3>>>>>>>>,   \* 1270
    <<<<"^", 5, 2>>, <<"rotr", 5, 56>>, <<"-=", 2, <<<<"b", 5>>>>>>>>,   \* 1271
    <<<<"^", 7, 0>>, <<"rotr", 7, 35>>, <<"-=", 0, <<<<"b", 7>>>>>>>>,   \* 1272
    <<<<"^", 1, 6>>, <<"rotr", 1, 8>>, <<"-=", 6, <<<<"b", 1>>>>>>>>,   \* 1273
    <<<<"^", 7, 2>>, <<"rotr", 7, 43>>, <<"-=", 2, <<<<"b", 7>>>>>>>>,   \* 1274
    <<<<"^", 5, 0>>, <<"rotr", 5, 39>>, <<"-=", 0, <<<<"b", 5>>>>>>>>,   \* 1275
    <<<<"^", 3, 6>>, <<"rotr", 3, 29>>, <<"-=", 6, <<<<"b", 3>>>>>>>>,   \* 1276
    <<<<"^", 1, 4>>, <<"rotr", 1, 25>>, <<"-=", 4, <<<<"b", 1>>>>>>>>,   \* 1277
    <<<<"^", 3, 0>>, <<"rotr", 3, 17>>, <<"-=", 0, <<<<"b", 3>>>>>>>>,   \* 1278
    <<<<"^", 5, 6>>, <<"rotr", 5, 10>>, <<"-=", 6, <<<<"b", 5>>>>>>>>,   \* 1279
    <<<<"^", 7, 4>>, <<"rotr", 7, 50>>, <<"-=", 4, <<<<"b", 7>>>>>>>>,   \* 1280
    <<<<"^", 1, 2>>, <<"rotr", 1, 13>>, <<"-=", 2, <<<<"b", 1>>>>>>>>,   \* 1281
    <<<<"^", 7, 6>>, <<"rotr", 7, 24>>, <<"-=", 6, <<<<"b", 7>>, <<"k", 7>>, <<"t", 2>>>>>>, <<"-=", 7, <<<<"k", 8>>, <<"n", 1>>>>>>>>,   \* 1282
    <<<<"^", 5, 4>>, <<"rotr", 5, 34>>, <<"-=", 4, <<<<"b", 5>>, <<"k", 5>>>>>>, <<"-=", 5, <<<<"k", 6>>, <<"t", 1>>>>>>>>,   \* 1283
    <<<<"^", 3, 2>>, <<"rotr", 3, 30>>, <<"-=", 2, <<<<"b", 3>>, <<"k", 3>>>>>>, <<"-=", 3, <<<<"k", 4>>>>>>>>,   \* 1284
    <<<<"^", 1, 0>>, <<"rotr", 1, 39>>, <<"-=", 0, <<<<"b", 1>>, <<"k", 1>>>>>>, <<"-=", 1, <<<<"k", 2>>>>>>>>   \* 1285
   >>,
   <<
    <<<<"^", 3, 4>>, <<"rotr", 3, 56>>, <<"-=", 4, <<<<"b", 3>>>>>>>>,   \* 1286
    <<<<"^", 5, 2>>, <<"rotr", 5, 54>>, <<"-=", 2, <<<<"b", 5>>>>>>>>,   \* 1287
    <<<<"^", 7, 0>>, <<"rotr", 7, 9>>, <<"-=", 0, <<<<"b", 7>>>>>>>>,   \* 1288
    <<<<"^", 1, 6>>, <<"rotr", 1, 44>>, <<"-=", 6, <<<<"b", 1>>>>>>>>,   \* 1289
    <<<<"^", 7, 2>>, <<"rotr", 7, 39>>, <<"-=", 2, <<<<"b", 7>>>>>>>>,   \* 1290
    <<<<"^", 5, 0>>, <<"rotr", 5, 36>>, <<"-=", 0, <<<<"b", 5>>>>>>>>,   \* 1291
    <<<<"^", 3, 6>>, <<"rotr", 3, 49>>, <<"-=", 6, <<<<"b", 3>>>>>>>>,   \* 1292
    <<<<"^", 1, 4>>, <<"rotr", 1, 17>>, <<"-=", 4, <<<<"b", 1>>>>>>>>,   \* 1293
    <<<<"^", 3, 0>>, <<"rotr", 3, 42>>, <<"-=", 0, <<<<"b", 3>>>>>>>>,   \* 1294
    <<<<"^", 5, 6>>, <<"rotr", 5, 14>>, <<"-=", 6, <<<<"b", 5>>>>>>>>,   \* 1295
    <<<<"^", 7, 4>>, <<"rotr", 7, 27>>, <<"-=", 4, <<<<"b", 7>>>>>>>>,   \* 1296
    <<<<"^", 1, 2>>, <<"rotr", 1, 33>>, <<"-=", 2, <<<<"b", 1>>>>>>>>,   \* 1297
    <<<<"^", 7, 6>>, <<"rotr", 7, 37>>, <<"-=", 6, <<<<"b", 7>>, <<"k", 6>>, <<"t", 1>>>>>>, <<"-=", 7, <<<<"k", 7>>>>>>>>,   \* 1298
    <<<<"^", 5, 4>>, <<"rotr", 5, 19>>, <<"-=", 4, <<<<"b", 5>>, <<"k", 4>>>>>>, <<"-=", 5, <<<<"k", 5>>, <<"t", 0>>>>>>>>,   \* 1299
    <<<<"^", 3, 2>>, <<"rotr", 3, 36>>, <<"-=", 2, <<<<"b", 3>>, <<"k", 2>>>>>>, <<"-=", 3, <<<<"k", 3>>>>>>>>,   \* 1300
    <<<<"^", 1, 0>>, <<"rotr", 1, 46>>, <<"-=", 0, <<<<"b", 1>>, <<"k", 0>>>>>>, <<"-=", 1, <<<<"k", 1>>>>>>>>   \* 1301
   >>,
   <<
    <<<<"out", 7, <<<<"b", 7>>>>>>>>,   \* 1303
    <<<<"out", 6, <<<<"b", 6>>>>>>>>,   \* 1304
    <<<<"out", 5, <<<<"b", 5>>>>>>>>,   \* 1305
    <<<<"out", 4, <<<<"b", 4>>>>>>>>,   \* 1306
    <<<<"out", 3, <<<<"b", 3>>>>>>>>,   \* 1307
    <<<<"out", 2, <<<<"b", 2>>>>>>>>,   \* 1308
    <<<<"out", 1, <<<<"b", 1>>>>>>>>,   \* 1309
    <<<<"out", 0, <<<<"b", 0>>>>>>>>   \* 1310
   >>
  >>

(* func (tf *threefish512) decrypt(input, output []uint64): output afterwards *)
decrypt512(tf, input, output) ==
  Run(tf, decrypt512Code, CIPHER_QWORDS_512, input, output)

----------------------------------------------------------------------------
(* Threefish 1024 *)

CIPHER_SIZE_1024 == 1024
CIPHER_QWORDS_1024 == CIPHER_SIZE_1024 \div 64
EXPANDED_KEY_SIZE_1024 == CIPHER_QWORDS_1024 + 1

(* new(threefish1024): every array zeroed *)
threefish1024 ==
  [type |-> CIPHER_SIZE_1024,
   expanedTweak |-> Zeros(EXPANDED_TWEAK_SIZE),
   expanedKey |-> Zeros(EXPANDED_KEY_SIZE_1024),
   tmpData1 |-> Zeros(CIPHER_QWORDS_1024),
   tmpData2 |-> Zeros(CIPHER_QWORDS_1024)]

(* func newThreefish1024(key []byte, tweak []uint64) *)
newThreefish1024(key, tweak) ==
  LET c0 == threefish1024
      c1 == [c0 EXCEPT !.expanedTweak = setTweak(tweak, c0.expanedTweak)]
      c2 == [c1 EXCEPT !.expanedKey[EXPANDED_KEY_SIZE_1024] = KEY_SCHEDULE_CONST]
  IN  IF key.isNil THEN c2
      ELSE [c2 EXCEPT !.expanedKey =
              setKey(KeyBytesToWords(key.data, EXPANDED_KEY_SIZE_1024 - 1), c2.expanedKey)]

(* func newThreefish1024_64(key, tweak []uint64) *)
newThreefish1024_64(key, tweak) ==
  LET c0 == threefish1024
      c1 == [c0 EXCEPT !.expanedTweak = setTweak(tweak, c0.expanedTweak)]
      c2 == [c1 EXCEPT !.expanedKey[EXPANDED_KEY_SIZE_1024] = KEY_SCHEDULE_CONST]
  IN  [c2 EXCEPT !.expanedKey = setKey(key.data, c2.expanedKey)]


(* The statements of func (tf *threefish1024) encrypt(input, output []uint64),
   threefish.go lines 1371-2055, after its loads of b0.., k0.., t0..: one tuple per
   source line, its line number at the end, the lines grouped by key-injection cycle. *)
encrypt1024Code ==
  <<
   <<
    <<<<"+=", 1, <<<<"k", 1>>>>>>, <<"+=", 0, <<<<"b", 1>>, <<"k", 0>>>>>>, <<"rotl^", 1, 24, 0>>>>,   \* 1397
    <<<<"+=", 3, <<<<"k", 3>>>>>>, <<"+=", 2, <<<<"b", 3>>, <<"k", 2>>>>>>, <<"rotl^", 3, 13, 2>>>>,   \* 1398
    <<<<"+=", 5, <<<<"k", 5>>>>>>, <<"+=", 4, <<<<"b", 5>>, <<"k", 4>>>>>>, <<"rotl^", 5, 8, 4>>>>,   \* 1399
    <<<<"+=", 7, <<<<"k", 7>>>>>>, <<"+=", 6, <<<<"b", 7>>, <<"k", 6>>>>>>, <<"rotl^", 7, 47, 6>>>>,   \* 1400
    <<<<"+=", 9, <<<<"k", 9>>>>>>, <<"+=", 8, <<<<"b", 9>>, <<"k", 8>>>>>>, <<"rotl^", 9, 8, 8>>>>,   \* 1401
    <<<<"+=", 11, <<<<"k", 11>>>>>>, <<"+=", 10, <<<<"b", 11>>, <<"k", 10>>>>>>, <<"rotl^", 11, 17, 10>>>>,   \* 1402
    <<<<"+=", 13, <<<<"k", 13>>, <<"t", 0>>>>>>, <<"+=", 12, <<<<"b", 13>>, <<"k", 12>>>>>>, <<"rotl^", 13, 22, 12>>>>,   \* 1403
    <<<<"+=", 15, <<<<"k", 15>>>>>>, <<"+=", 14, <<<<"b", 15>>, <<"k", 14>>, <<"t", 1>>>>>>, <<"rotl^", 15, 37, 14>>>>,   \* 1404
    <<<<"+=", 0, <<<<"b", 9>>>>>>, <<"rotl^", 9, 38, 0>>>>,   \* 1405
    <<<<"+=", 2, <<<<"b", 13>>>>>>, <<"rotl^", 13, 19, 2>>>>,   \* 1406
    <<<<"+=", 6, <<<<"b", 11>>>>>>, <<"rotl^", 11, 10, 6>>>>,   \* 1407
    <<<<"+=", 4, <<<<"b", 15>>>>>>, <<"rotl^", 15, 55, 4>>>>,   \* 1408
    <<<<"+=", 10, <<<<"b", 7>>>>>>, <<"rotl^", 7, 49, 10>>>>,   \* 1409
    <<<<"+=", 12, <<<<"b", 3>>>>>>, <<"rotl^", 3, 18, 12>>>>,   \* 1410
    <<<<"+=", 14, <<<<"b", 5>>>>>>, <<"rotl^", 5, 23, 14>>>>,   \* 1411
    <<<<"+=", 8, <<<<"b", 1>>>>>>, <<"rotl^", 1, 52, 8>>>>,   \* 1412
    <<<<"+=", 0, <<<<"b", 7>>>>>>, <<"rotl^", 7, 33, 0>>>>,   \* 1413
    <<<<"+=", 2, <<<<"b", 5>>>>>>, <<"rotl^", 5, 4, 2>>>>,   \* 1414
    <<<<"+=", 4, <<<<"b", 3>>>>>>, <<"rotl^", 3, 51, 4>>>>,   \* 1415
    <<<<"+=", 6, <<<<"b", 1>>>>>>, <<"rotl^", 1, 13, 6>>>>,   \* 1416
    <<<<"+=", 12, <<<<"b", 15>>>>>>, <<"rotl^", 15, 34, 12>>>>,   \* 1417
    <<<<"+=", 14, <<<<"b", 13>>>>>>, <<"rotl^", 13, 41, 14>>>>,   \* 1418
    <<<<"+=", 8, <<<<"b", 11>>>>>>, <<"rotl^", 11, 59, 8>>>>,   \* 1419
    <<<<"+=", 10, <<<<"b", 9>>>>>>, <<"rotl^", 9, 17, 10>>>>,   \* 1420
    <<<<"+=", 0, <<<<"b", 15>>>>>>, <<"rotl^", 15, 5, 0>>>>,   \* 1421
    <<<<"+=", 2, <<<<"b", 11>>>>>>, <<"rotl^", 11, 20, 2>>>>,   \* 1422
    <<<<"+=", 6, <<<<"b", 13>>>>>>, <<"rotl^", 13, 48, 6>>>>,   \* 1423
    <<<<"+=", 4, <<<<"b", 9>>>>>>, <<"rotl^", 9, 41, 4>>>>,   \* 1424
    <<<<"+=", 14, <<<<"b", 1>>>>>>, <<"rotl^", 1, 47, 14>>>>,   \* 1425
    <<<<"+=", 8, <<<<"b", 5>>>>>>, <<"rotl^", 5, 28, 8>>>>,   \* 1426
    <<<<"+=", 10, <<<<"b", 3>>>>>>, <<"rotl^", 3, 16, 10>>>>,   \* 1427
    <<<<"+=", 12, <<<<"b", 7>>>>>>, <<"rotl^", 7, 25, 12>>>>   \* 1428
   >>,
   <<
    <<<<"+=", 1, <<<<"k", 2>>>>>>, <<"+=", 0, <<<<"b", 1>>, <<"k", 1>>>>>>, <<"rotl^", 1, 41, 0>>>>,   \* 1429
    <<<<"+=", 3, <<<<"k", 4>>>>>>, <<"+=", 2, <<<<"b", 3>>, <<"k", 3>>>>>>, <<"rotl^", 3, 9, 2>>>>,   \* 1430
    <<<<"+=", 5, <<<<"k", 6>>>>>>, <<"+=", 4, <<<<"b", 5>>, <<"k", 5>>>>>>, <<"rotl^", 5, 37, 4>>>>,   \* 1431
    <<<<"+=", 7, <<<<"k", 8>>>>>>, <<"+=", 6, <<<<"b", 7>>, <<"k", 7>>>>>>, <<"rotl^", 7, 31, 6>>>>,   \* 1432
    <<<<"+=", 9, <<<<"k", 10>>>>>>, <<"+=", 8, <<<<"b", 9>>, <<"k", 9>>>>>>, <<"rotl^", 9, 12, 8>>>>,   \* 1433
    <<<<"+=", 11, <<<<"k", 12>>>>>>, <<"+=", 10, <<<<"b", 11>>, <<"k", 11>>>>>>, <<"rotl^", 11, 47, 10>>>>,   \* 1434
    <<<<"+=", 13, <<<<"k", 14>>, <<"t", 1>>>>>>, <<"+=", 12, <<<<"b", 13>>, <<"k", 13>>>>>>, <<"rotl^", 13, 44, 12>>>>,   \* 1435
    <<<<"+=", 15, <<<<"k", 16>>, <<"n", 1>>>>>>, <<"+=", 14, <<<<"b", 15>>, <<"k", 15>>, <<"t", 2>>>>>>, <<"rotl^", 15, 30, 14>>>>,   \* 1436
    <<<<"+=", 0, <<<<"b", 9>>>>>>, <<"rotl^", 9, 16, 0>>>>,   \* 1437
    <<<<"+=", 2, <<<<"b", 13>>>>>>, <<"rotl^", 13, 34, 2>>>>,   \* 1438
    <<<<"+=", 6, <<<<"b", 11>>>>>>, <<"rotl^", 11, 56, 6>>>>,   \* 1439
    <<<<"+=", 4, <<<<"b", 15>>>>>>, <<"rotl^", 15, 51, 4>>>>,   \* 1440
    <<<<"+=", 10, <<<<"b", 7>>>>>>, <<"rotl^", 7, 4, 10>>>>,   \* 1441
    <<<<"+=", 12, <<<<"b", 3>>>>>>, <<"rotl^", 3, 53, 12>>>>,   \* 1442
    <<<<"+=", 14, <<<<"b", 5>>>>>>, <<"rotl^", 5, 42, 14>>>>,   \* 1443
    <<<<"+=", 8, <<<<"b", 1>>>>>>, <<"rotl^", 1, 41, 8>>>>,   \* 1444
    <<<<"+=", 0, <<<<"b", 7>>>>>>, <<"rotl^", 7, 31, 0>>>>,   \* 1445
    <<<<"+=", 2, <<<<"b", 5>>>>>>, <<"rotl^", 5, 44, 2>>>>,   \* 1446
    <<<<"+=", 4, <<<<"b", 3>>>>>>, <<"rotl^", 3, 47, 4>>>>,   \* 1447
    <<<<"+=", 6, <<<<"b", 1>>>>>>, <<"rotl^", 1, 46, 6>>>>,   \* 1448
    <<<<"+=", 12, <<<<"b", 15>>>>>>, <<"rotl^", 15, 19, 12>>>>,   \* 1449
    <<<<"+=", 14, <<<<"b", 13>>>>>>, <<"rotl^", 13, 42, 14>>>>,   \* 1450
    <<<<"+=", 8, <<<<"b", 11>>>>>>, <<"rotl^", 11, 44, 8>>>>,   \* 1451
    <<<<"+=", 10, <<<<"b", 9>>>>>>, <<"rotl^", 9, 25, 10>>>>,   \* 1452
    <<<<"+=", 0, <<<<"b", 15>>>>>>, <<"rotl^", 15, 9, 0>>>>,   \* 1453
    <<<<"+=", 2, <<<<"b", 11>>>>>>, <<"rotl^", 11, 48, 2>>>>,   \* 1454
    <<<<"+=", 6, <<<<"b", 13>>>>>>, <<"rotl^", 13, 35, 6>>>>,   \* 1455
    <<<<"+=", 4, <<<<"b", 9>>>>>>, <<"rotl^", 9, 52, 4>>>>,   \* 1456
    <<<<"+=", 14, <<<<"b", 1>>>>>>, <<"rotl^", 1, 23, 14>>>>,   \* 1457
    <<<<"+=", 8, <<<<"b", 5>>>>>>, <<"rotl^", 5, 31, 8>>>>,   \* 1458
    <<<<"+=", 10, <<<<"b", 3>>>>>>, <<"rotl^", 3, 37, 10>>>>,   \* 1459
    <<<<"+=", 12, <<<<"b", 7>>>>>>, <<"rotl^", 7, 20, 12>>>>   \* 1460
   >>,
   <<
    <<<<"+=", 1, <<<<"k", 3>>>>>>, <<"+=", 0, <<<<"b", 1>>, <<"k", 2>>>>>>, <<"rotl^", 1, 24, 0>>>>,   \* 1461
    <<<<"+=", 3, <<<<"k", 5>>>>>>, <<"+=", 2, <<<<"b", 3>>, <<"k", 4>>>>>>, <<"rotl^", 3, 13, 2>>>>,   \* 1462
    <<<<"+=", 5, <<<<"k", 7>>>>>>, <<"+=", 4, <<<<"b", 5>>, <<"k", 6>>>>>>, <<"rotl^", 5, 8, 4>>>>,   \* 1463
    <<<<"+=", 7, <<<<"k", 9>>>>>>, <<"+=", 6, <<<<"b", 7>>, <<"k", 8>>>>>>, <<"rotl^", 7, 47, 6>>>>,   \* 1464
    <<<<"+=", 9, <<<<"k", 11>>>>>>, <<"+=", 8, <<<<"b", 9>>, <<"k", 10>>>>>>, <<"rotl^", 9, 8, 8>>>>,   \* 1465
    <<<<"+=", 11, <<<<"k", 13>>>>>>, <<"+=", 10, <<<<"b", 11>>, <<"k", 12>>>>>>, <<"rotl^", 11, 17, 10>>>>,   \* 1466
    <<<<"+=", 13, <<<<"k", 15>>, <<"t", 2>>>>>>, <<"+=", 12, <<<<"b", 13>>, <<"k", 14>>>>>>, <<"rotl^", 13, 22, 12>>>>,   \* 1467
    <<<<"+=", 15, <<<<"k", 0>>, <<"n", 2>>>>>>, <<"+=", 14, <<<<"b", 15>>, <<"k", 16>>, <<"t", 0>>>>>>, <<"rotl^", 15, 37, 14>>>>,   \* 1468
    <<<<"+=", 0, <<<<"b", 9>>>>>>, <<"rotl^", 9, 38, 0>>>>,   \* 1469
    <<<<"+=", 2, <<<<"b", 13>>>>>>, <<"rotl^", 13, 19, 2>>>>,   \* 1470
    <<<<"+=", 6, <<<<"b", 11>>>>>>, <<"rotl^", 11, 10, 6>>>>,   \* 1471
    <<<<"+=", 4, <<<<"b", 15>>>>>>, <<"rotl^", 15, 55, 4>>>>,   \* 1472
    <<<<"+=", 10, <<<<"b", 7>>>>>>, <<"rotl^", 7, 49, 10>>>>,   \* 1473
    <<<<"+=", 12, <<<<"b", 3>>>>>>, <<"rotl^", 3, 18, 12>>>>,   \* 1474
    <<<<"+=", 14, <<<<"b", 5>>>>>>, <<"rotl^", 5, 23, 14>>>>,   \* 1475
    <<<<"+=", 8, <<<<"b", 1>>>>>>, <<"rotl^", 1, 52, 8>>>>,   \* 1476
    <<<<"+=", 0, <<<<"b", 7>>>>>>, <<"rotl^", 7, 33, 0>>>>,   \* 1477
    <<<<"+=", 2, <<<<"b", 5>>>>>>, <<"rotl^", 5, 4, 2>>>>,   \* 1478
    <<<<"+=", 4, <<<<"b", 3>>>>>>, <<"rotl^", 3, 51, 4>>>>,   \* 1479
    <<<<"+=", 6, <<<<"b", 1>>>>>>, <<"rotl^", 1, 13, 6>>>>,   \* 1480
    <<<<"+=", 12, <<<<"b", 15>>>>>>, <<"rotl^", 15, 34, 12>>>>,   \* 1481
    <<<<"+=", 14, <<<<"b", 13>>>>>>, <<"rotl^", 13, 41, 14>>>>,   \* 1482
    <<<<"+=", 8, <<<<"b", 11>>>>>>, <<"rotl^", 11, 59, 8>>>>,   \* 1483
    <<<<"+=", 10, <<<<"b", 9>>>>>>, <<"rotl^", 9, 17, 10>>>>,   \* 1484
    <<<<"+=", 0, <<<<"b", 15>>>>>>, <<"rotl^", 15, 5, 0>>>>,   \* 1485
    <<<<"+=", 2, <<<<"b", 11>>>>>>, <<"rotl^", 11, 20, 2>>>>,   \* 1486
    <<<<"+=", 6, <<<<"b", 13>>>>>>, <<"rotl^", 13, 48, 6>>>>,   \* 1487
    <<<<"+=", 4, <<<<"b", 9>>>>>>, <<"rotl^", 9, 41, 4>>>>,   \* 1488
    <<<<"+=", 14, <<<<"b", 1>>>>>>, <<"rotl^", 1, 47, 14>>>>,   \* 1489
    <<<<"+=", 8, <<<<"b", 5>>>>>>, <<"rotl^", 5, 28, 8>>>>,   \* 1490
    <<<<"+=", 10, <<<<"b", 3>>>>>>, <<"rotl^", 3, 16, 10>>>>,   \* 1491
    <<<<"+=", 12, <<<<"b", 7>>>>>>, <<"rotl^", 7, 25, 12>>>>   \* 1492
   >>,
   <<
    <<<<"+=", 1, <<<<"k", 4>>>>>>, <<"+=", 0, <<<<"b", 1>>, <<"k", 3>>>>>>, <<"rotl^", 1, 41, 0>>>>,   \* 1493
    <<<<"+=", 3, <<<<"k", 6>>>>>>, <<"+=", 2, <<<<"b", 3>>, <<"k", 5>>>>>>, <<"rotl^", 3, 9, 2>>>>,   \* 1494
    <<<<"+=", 5, <<<<"k", 8>>>>>>, <<"+=", 4, <<<<"b", 5>>, <<"k", 7>>>>>>, <<"rotl^", 5, 37, 4>>>>,   \* 1495
    <<<<"+=", 7, <<<<"k", 10>>>>>>, <<"+=", 6, <<<<"b", 7>>, <<"k", 9>>>>>>, <<"rotl^", 7, 31, 6>>>>,   \* 1496
    <<<<"+=", 9, <<<<"k", 12>>>>>>, <<"+=", 8, <<<<"b", 9>>, <<"k", 11>>>>>>, <<"rotl^", 9, 12, 8>>>>,   \* 1497
    <<<<"+=", 11, <<<<"k", 14>>>>>>, <<"+=", 10, <<<<"b", 11>>, <<"k", 13>>>>>>, <<"rotl^", 11, 47, 10>>>>,   \* 1498
    <<<<"+=", 13, <<<<"k", 16>>, <<"t", 0>>>>>>, <<"+=", 12, <<<<"b", 13>>, <<"k", 15>>>>>>, <<"rotl^", 13, 44, 12>>>>,   \* 1499
    <<<<"+=", 15, <<<<"k", 1>>, <<"n", 3>>>>>>, <<"+=", 14, <<<<"b", 15>>, <<"k", 0>>, <<"t", 1>>>>>>, <<"rotl^", 15, 30, 14>>>>,   \* 1500
    <<<<"+=", 0, <<<<"b", 9>>>>>>, <<"rotl^", 9, 16, 0>>>>,   \* 1501
    <<<<"+=", 2, <<<<"b", 13>>>>>>, <<"rotl^", 13, 34, 2>>>>,   \* 1502
    <<<<"+=", 6, <<<<"b", 11>>>>>>, <<"rotl^", 11, 56, 6>>>>,   \* 1503
    <<<<"+=", 4, <<<<"b", 15>>>>>>, <<"rotl^", 15, 51, 4>>>>,   \* 1504
    <<<<"+=", 10, <<<<"b", 7>>>>>>, <<"rotl^", 7, 4, 10>>>>,   \* 1505
    <<<<"+=", 12, <<<<"b", 3>>>>>>, <<"rotl^", 3, 53, 12>>>>,   \* 1506
    <<<<"+=", 14, <<<<"b", 5>>>>>>, <<"rotl^", 5, 42, 14>>>>,   \* 1507
    <<<<"+=", 8, <<<<"b", 1>>>>>>, <<"rotl^", 1, 41, 8>>>>,   \* 1508
    <<<<"+=", 0, <<<<"b", 7>>>>>>, <<"rotl^", 7, 31, 0>>>>,   \* 1509
    <<<<"+=", 2, <<<<"b", 5>>>>>>, <<"rotl^", 5, 44, 2>>>>,   \* 1510
    <<<<"+=", 4, <<<<"b", 3>>>>>>, <<"rotl^", 3, 47, 4>>>>,   \* 1511
    <<<<"+=", 6, <<<<"b", 1>>>>>>, <<"rotl^", 1, 46, 6>>>>,   \* 1512
    <<<<"+=", 12, <<<<"b", 15>>>>>>, <<"rotl^", 15, 19, 12>>>>,   \* 1513
    <<<<"+=", 14, <<<<"b", 13>>>>>>, <<"rotl^", 13, 42, 14>>>>,   \* 1514
    <<<<"+=", 8, <<<<"b", 11>>>>>>, <<"rotl^", 11, 44, 8>>>>,   \* 1515
    <<<<"+=", 10, <<<<"b", 9>>>>>>, <<"rotl^", 9, 25, 10>>>>,   \* 1516
    <<<<"+=", 0, <<<<"b", 15>>>>>>, <<"rotl^", 15, 9, 0>>>>,   \* 1517
    <<<<"+=", 2, <<<<"b", 11>>>>>>, <<"rotl^", 11, 48, 2>>>>,   \* 1518
    <<<<"+=", 6, <<<<"b", 13>>>>>>, <<"rotl^", 13, 35, 6>>>>,   \* 1519
    <<<<"+=", 4, <<<<"b", 9>>>>>>, <<"rotl^", 9, 52, 4>>>>,   \* 1520
    <<<<"+=", 14, <<<<"b", 1>>>>>>, <<"rotl^", 1, 23, 14>>>>,   \* 1521
    <<<<"+=", 8, <<<<"b", 5>>>>>>, <<"rotl^", 5, 31, 8>>>>,   \* 1522
    <<<<"+=", 10, <<<<"b", 3>>>>>>, <<"rotl^", 3, 37, 10>>>>,   \* 1523
    <<<<"+=", 12, <<<<"b", 7>>>>>>, <<"rotl^", 7, 20, 12>>>>   \* 1524
   >>,
   <<
    <<<<"+=", 1, <<<<"k", 5>>>>>>, <<"+=", 0, <<<<"b", 1>>, <<"k", 4>>>>>>, <<"rotl^", 1, 24, 0>>>>,   \* 1525
    <<<<"+=", 3, <<<<"k", 7>>>>>>, <<"+=", 2, <<<<"b", 3>>, <<"k", 6>>>>>>, <<"rotl^", 3, 13, 2>>>>,   \* 1526
    <<<<"+=", 5, <<<<"k", 9>>>>>>, <<"+=", 4, <<<<"b", 5>>, <<"k", 8>>>>>>, <<"rotl^", 5, 8, 4>>>>,   \* 1527
    <<<<"+=", 7, <<<<"k", 11>>>>>>, <<"+=", 6, <<<<"b", 7>>, <<"k", 10>>>>>>, <<"rotl^", 7, 47, 6>>>>,   \* 1528
    <<<<"+=", 9, <<<<"k", 13>>>>>>, <<"+=", 8, <<<<"b", 9>>, <<"k", 12>>>>>>, <<"rotl^", 9, 8, 8>>>>,   \* 1529
    <<<<"+=", 11, <<<<"k", 15>>>>>>, <<"+=", 10, <<<<"b", 11>>, <<"k", 14>>>>>>, <<"rotl^", 11, 17, 10>>>>,   \* 1530
    <<<<"+=", 13, <<<<"k", 0>>, <<"t", 1>>>>>>, <<"+=", 12, <<<<"b", 13>>, <<"k", 16>>>>>>, <<"rotl^", 13, 22, 12>>>>,   \* 1531
    <<<<"+=", 15, <<<<"k", 2>>, <<"n", 4>>>>>>, <<"+=", 14, <<<<"b", 15>>, <<"k", 1>>, <<"t", 2>>>>>>, <<"rotl^", 15, 37, 14>>>>,   \* 1532
    <<<<"+=", 0, <<<<"b", 9>>>>>>, <<"rotl^", 9, 38, 0>>>>,   \* 1533
    <<<<"+=", 2, <<<<"b", 13>>>>>>, <<"rotl^", 13, 19, 2>>>>,   \* 1534
    <<<<"+=", 6, <<<<"b", 11>>>>>>, <<"rotl^", 11, 10, 6>>>>,   \* 1535
    <<<<"+=", 4, <<<<"b", 15>>>>>>, <<"rotl^", 15, 55, 4>>>>,   \* 1536
    <<<<"+=", 10, <<<<"b", 7>>>>>>, <<"rotl^", 7, 49, 10>>>>,   \* 1537
    <<<<"+=", 12, <<<<"b", 3>>>>>>, <<"rotl^", 3, 18, 12>>>>,   \* 1538
    <<<<"+=", 14, <<<<"b", 5>>>>>>, <<"rotl^", 5, 23, 14>>>>,   \* 1539
    <<<<"+=", 8, <<<<"b", 1>>>>>>, <<"rotl^", 1, 52, 8>>>>,   \* 1540
    <<<<"+=", 0, <<<<"b", 7>>>>>>, <<"rotl^", 7, 33, 0>>>>,   \* 1541
    <<<<"+=", 2, <<<<"b", 5>>>>>>, <<"rotl^", 5, 4, 2>>>>,   \* 1542
    <<<<"+=", 4, <<<<"b", 3>>>>>>, <<"rotl^", 3, 51, 4>>>>,   \* 1543
    <<<<"+=", 6, <<<<"b", 1>>>>>>, <<"rotl^", 1, 13, 6>>>>,   \* 1544
    <<<<"+=", 12, <<<<"b", 15>>>>>>, <<"rotl^", 15, 34, 12>>>>,   \* 1545
    <<<<"+=", 14, <<<<"b", 13>>>>>>, <<"rotl^", 13, 41, 14>>>>,   \* 1546
    <<<<"+=", 8, <<<<"b", 11>>>>>>, <<"rotl^", 11, 59, 8>>>>,   \* 1547
    <<<<"+=", 10, <<<<"b", 9>>>>>>, <<"rotl^", 9, 17, 10>>>>,   \* 1548
    <<<<"+=", 0, <<<<"b", 15>>>>>>, <<"rotl^", 15, 5, 0>>>>,   \* 1549
    <<<<"+=", 2, <<<<"b", 11>>>>>>, <<"rotl^", 11, 20, 2>>>>,   \* 1550
    <<<<"+=", 6, <<<<"b", 13>>>>>>, <<"rotl^", 13, 48, 6>>>>,   \* 1551
    <<<<"+=", 4, <<<<"b", 9>>>>>>, <<"rotl^", 9, 41, 4>>>>,   \* 1552
    <<<<"+=", 14, <<<<"b", 1>>>>>>, <<"rotl^", 1, 47, 14>>>>,   \* 1553
    <<<<"+=", 8, <<<<"b", 5>>>>>>, <<"rotl^", 5, 28, 8>>>>,   \* 1554
    <<<<"+=", 10, <<<<"b", 3>>>>>>, <<"rotl^", 3, 16, 10>>>>,   \* 1555
    <<<<"+=", 12, <<<<"b", 7>>>>>>, <<"rotl^", 7, 25, 12>>>>   \* 1556
   >>,
   <<
    <<<<"+=", 1, <<<<"k", 6>>>>>>, <<"+=", 0, <<<<"b", 1>>, <<"k", 5>>>>>>, <<"rotl^", 1, 41, 0>>>>,   \* 1557
    <<<<"+=", 3, <<<<"k", 8>>>>>>, <<"+=", 2, <<<<"b", 3>>, <<"k", 7>>>>>>, <<"rotl^", 3, 9, 2>>>>,   \* 1558
    <<<<"+=", 5, <<<<"k", 10>>>>>>, <<"+=", 4, <<<<"b", 5>>, <<"k", 9>>>>>>, <<"rotl^", 5, 37, 4>>>>,   \* 1559
    <<<<"+=", 7, <<<<"k", 12>>>>>>, <<"+=", 6, <<<<"b", 7>>, <<"k", 11>>>>>>, <<"rotl^", 7, 31, 6>>>>,   \* 1560
    <<<<"+=", 9, <<<<"k", 14>>>>>>, <<"+=", 8, <<<<"b", 9>>, <<"k", 13>>>>>>, <<"rotl^", 9, 12, 8>>>>,   \* 1561
    <<<<"+=", 11, <<<<"k", 16>>>>>>, <<"+=", 10, <<<<"b", 11>>, <<"k", 15>>>>>>, <<"rotl^", 11, 47, 10>>>>,   \* 1562
    <<<<"+=", 13, <<<<"k", 1>>, <<"t", 2>>>>>>, <<"+=", 12, <<<<"b", 13>>, <<"k", 0>>>>>>, <<"rotl^", 13, 44, 12>>>>,   \* 1563
    <<<<"+=", 15, <<<<"k", 3>>, <<"n", 5>>>>>>, <<"+=", 14, <<<<"b", 15>>, <<"k", 2>>, <<"t", 0>>>>>>, <<"rotl^", 15, 30, 14>>>>,   \* 1564
    <<<<"+=", 0, <<<<"b", 9>>>>>>, <<"rotl^", 9, 16, 0>>>>,   \* 1565
    <<<<"+=", 2, <<<<"b", 13>>>>>>, <<"rotl^", 13, 34, 2>>>>,   \* 1566
    <<<<"+=", 6, <<<<"b", 11>>>>>>, <<"rotl^", 11, 56, 6>>>>,   \* 1567
    <<<<"+=", 4, <<<<"b", 15>>>>>>, <<"rotl^", 15, 51, 4>>>>,   \* 1568
    <<<<"+=", 10, <<<<"b", 7>>>>>>, <<"rotl^", 7, 4, 10>>>>,   \* 1569
    <<<<"+=", 12, <<<<"b", 3>>>>>>, <<"rotl^", 3, 53, 12>>>>,   \* 1570
    <<<<"+=", 14, <<<<"b", 5>>>>>>, <<"rotl^", 5, 42, 14>>>>,   \* 1571
    <<<<"+=", 8, <<<<"b", 1>>>>>>, <<"rotl^", 1, 41, 8>>>>,   \* 1572
    <<<<"+=", 0, <<<<"b", 7>>>>>>, <<"rotl^", 7, 31, 0>>>>,   \* 1573
    <<<<"+=", 2, <<<<"b", 5>>>>>>, <<"rotl^", 5, 44, 2>>>>,   \* 1574
    <<<<"+=", 4, <<<<"b", 3>>>>>>, <<"rotl^", 3, 47, 4>>>>,   \* 1575
    <<<<"+=", 6, <<<<"b", 1>>>>>>, <<"rotl^", 1, 46, 6>>>>,   \* 1576
    <<<<"+=", 12, <<<<"b", 15>>>>>>, <<"rotl^", 15, 19, 12>>>>,   \* 1577
    <<<<"+=", 14, <<<<"b", 13>>>>>>, <<"rotl^", 13, 42, 14>>>>,   \* 1578
    <<<<"+=", 8, <<<<"b", 11>>>>>>, <<"rotl^", 11, 44, 8>>>>,   \* 1579
    <<<<"+=", 10, <<<<"b", 9>>>>>>, <<"rotl^", 9, 25, 10>>>>,   \* 1580
    <<<<"+=", 0, <<<<"b", 15>>>>>>, <<"rotl^", 15, 9, 0>>>>,   \* 1581
    <<<<"+=", 2, <<<<"b", 11>>>>>>, <<"rotl^", 11, 48, 2>>>>,   \* 1582
    <<<<"+=", 6, <<<<"b", 13>>>>>>, <<"rotl^", 13, 35, 6>>>>,   \* 1583
    <<<<"+=", 4, <<<<"b", 9>>>>>>, <<"rotl^", 9, 52, 4>>>>,   \* 1584
    <<<<"+=", 14, <<<<"b", 1>>>>>>, <<"rotl^", 1, 23, 14>>>>,   \* 1585
    <<<<"+=", 8, <<<<"b", 5>>>>>>, <<"rotl^", 5, 31, 8>>>>,   \* 1586
    <<<<"+=", 10, <<<<"b", 3>>>>>>, <<"rotl^", 3, 37, 10>>>>,   \* 1587
    <<<<"+=", 12, <<<<"b", 7>>>>>>, <<"rotl^", 7, 20, 12>>>>   \* 1588
   >>,
   <<
    <<<<"+=", 1, <<<<"k", 7>>>>>>, <<"+=", 0, <<<<"b", 1>>, <<"k", 6>>>>>>, <<"rotl^", 1, 24, 0>>>>,   \* 1589
    <<<<"+=", 3, <<<<"k", 9>>>>>>, <<"+=", 2, <<<<"b", 3>>, <<"k", 8>>>>>>, <<"rotl^", 3, 13, 2>>>>,   \* 1590
    <<<<"+=", 5, <<<<"k", 11>>>>>>, <<"+=", 4, <<<<"b", 5>>, <<"k", 10>>>>>>, <<"rotl^", 5, 8, 4>>>>,   \* 1591
    <<<<"+=", 7, <<<<"k", 13>>>>>>, <<"+=", 6, <<<<"b", 7>>, <<"k", 12>>>>>>, <<"rotl^", 7, 47, 6>>>>,   \* 1592
    <<<<"+=", 9, <<<<"k", 15>>>>>>, <<"+=", 8, <<<<"b", 9>>, <<"k", 14>>>>>>, <<"rotl^", 9, 8, 8>>>>,   \* 1593
    <<<<"+=", 11, <<<<"k", 0>>>>>>, <<"+=", 10, <<<<"b", 11>>, <<"k", 16>>>>>>, <<"rotl^", 11, 17, 10>>>>,   \* 1594
    <<<<"+=", 13, <<<<"k", 2>>, <<"t", 0>>>>>>, <<"+=", 12, <<<<"b", 13>>, <<"k", 1>>>>>>, <<"rotl^", 13, 22, 12>>>>,   \* 1595
    <<<<"+=", 15, <<<<"k", 4>>, <<"n", 6>>>>>>, <<"+=", 14, <<<<"b", 15>>, <<"k", 3>>, <<"t", 1>>>>>>, <<"rotl^", 15, 37, 14>>>>,   \* 1596
    <<<<"+=", 0, <<<<"b", 9>>>>>>, <<"rotl^", 9, 38, 0>>>>,   \* 1597
    <<<<"+=", 2, <<<<"b", 13>>>>>>, <<"rotl^", 13, 19, 2>>>>,   \* 1598
    <<<<"+=", 6, <<<<"b", 11>>>>>>, <<"rotl^", 11, 10, 6>>>>,   \* 1599
    <<<<"+=", 4, <<<<"b", 15>>>>>>, <<"rotl^", 15, 55, 4>>>>,   \* 1600
    <<<<"+=", 10, <<<<"b", 7>>>>>>, <<"rotl^", 7, 49, 10>>>>,   \* 1601
    <<<<"+=", 12, <<<<"b", 3>>>>>>, <<"rotl^", 3, 18, 12>>>>,   \* 1602
    <<<<"+=", 14, <<<<"b", 5>>>>>>, <<"rotl^", 5, 23, 14>>>>,   \* 1603
    <<<<"+=", 8, <<<<"b", 1>>>>>>, <<"rotl^", 1, 52, 8>>>>,   \* 1604
    <<<<"+=", 0, <<<<"b", 7>>>>>>, <<"rotl^", 7, 33, 0>>>>,   \* 1605
    <<<<"+=", 2, <<<<"b", 5>>>>>>, <<"rotl^", 5, 4, 2>>>>,   \* 1606
    <<<<"+=", 4, <<<<"b", 3>>>>>>, <<"rotl^", 3, 51, 4>>>>,   \* 1607
    <<<<"+=", 6, <<<<"b", 1>>>>>>, <<"rotl^", 1, 13, 6>>>>,   \* 1608
    <<<<"+=", 12, <<<<"b", 15>>>>>>, <<"rotl^", 15, 34, 12>>>>,   \* 1609
    <<<<"+=", 14, <<<<"b", 13>>>>>>, <<"rotl^", 13, 41, 14>>>>,   \* 1610
    <<<<"+=", 8, <<<<"b", 11>>>>>>, <<"rotl^", 11, 59, 8>>>>,   \* 1611
    <<<<"+=", 10, <<<<"b", 9>>>>>>, <<"rotl^", 9, 17, 10>>>>,   \* 1612
    <<<<"+=", 0, <<<<"b", 15>>>>>>, <<"rotl^", 15, 5, 0>>>>,   \* 1613
    <<<<"+=", 2, <<<<"b", 11>>>>>>, <<"rotl^", 11, 20, 2>>>>,   \* 1614
    <<<<"+=", 6, <<<<"b", 13>>>>>>, <<"rotl^", 13, 48, 6>>>>,   \* 1615
    <<<<"+=", 4, <<<<"b", 9>>>>>>, <<"rotl^", 9, 41, 4>>>>,   \* 1616
    <<<<"+=", 14, <<<<"b", 1>>>>>>, <<"rotl^", 1, 47, 14>>>>,   \* 1617
    <<<<"+=", 8, <<<<"b", 5>>>>>>, <<"rotl^", 5, 28, 8>>>>,   \* 1618
    <<<<"+=", 10, <<<<"b", 3>>>>>>, <<"rotl^", 3, 16, 10>>>>,   \* 1619
    <<<<"+=", 12, <<<<"b", 7>>>>>>, <<"rotl^", 7, 25, 12>>>>   \* 1620
   >>,
   <<
    <<<<"+=", 1, <<<<"k", 8>>>>>>, <<"+=", 0, <<<<"b", 1>>, <<"k", 7>>>>>>, <<"rotl^", 1, 41, 0>>>>,   \* 1621
    <<<<"+=", 3, <<<<"k", 10>>>>>>, <<"+=", 2, <<<<"b", 3>>, <<"k", 9>>>>>>, <<"rotl^", 3, 9, 2>>>>,   \* 1622
    <<<<"+=", 5, <<<<"k", 12>>>>>>, <<"+=", 4, <<<<"b", 5>>, <<"k", 11>>>>>>, <<"rotl^", 5, 37, 4>>>>,   \* 1623
    <<<<"+=", 7, <<<<"k", 14>>>>>>, <<"+=", 6, <<<<"b", 7>>, <<"k", 13>>>>>>, <<"rotl^", 7, 31, 6>>>>,   \* 1624
    <<<<"+=", 9, <<<<"k", 16>>>>>>, <<"+=", 8, <<<<"b", 9>>, <<"k", 15>>>>>>, <<"rotl^", 9, 12, 8>>>>,   \* 1625
    <<<<"+=", 11, <<<<"k", 1>>>>>>, <<"+=", 10, <<<<"b", 11>>, <<"k", 0>>>>>>, <<"rotl^", 11, 47, 10>>>>,   \* 1626
    <<<<"+=", 13, <<<<"k", 3>>, <<"t", 1>>>>>>, <<"+=", 12, <<<<"b", 13>>, <<"k", 2>>>>>>, <<"rotl^", 13, 44, 12>>>>,   \* 1627
    <<<<"+=", 15, <<<<"k", 5>>, <<"n", 7>>>>>>, <<"+=", 14, <<<<"b", 15>>, <<"k", 4>>, <<"t", 2>>>>>>, <<"rotl^", 15, 30, 14>>>>,   \* 1628
    <<<<"+=", 0, <<<<"b", 9>>>>>>, <<"rotl^", 9, 16, 0>>>>,   \* 1629
    <<<<"+=", 2, <<<<"b", 13>>>>>>, <<"rotl^", 13, 34, 2>>>>,   \* 1630
    <<<<"+=", 6, <<<<"b", 11>>>>>>, <<"rotl^", 11, 56, 6>>>>,   \* 1631
    <<<<"+=", 4, <<<<"b", 15>>>>>>, <<"rotl^", 15, 51, 4>>>>,   \* 1632
    <<<<"+=", 10, <<<<"b", 7>>>>>>, <<"rotl^", 7, 4, 10>>>>,   \* 1633
    <<<<"+=", 12, <<<<"b", 3>>>>>>, <<"rotl^", 3, 53, 12>>>>,   \* 1634
    <<<<"+=", 14, <<<<"b", 5>>>>>>, <<"rotl^", 5, 42, 14>>>>,   \* 1635
    <<<<"+=", 8, <<<<"b", 1>>>>>>, <<"rotl^", 1, 41, 8>>>>,   \* 1636
    <<<<"+=", 0, <<<<"b", 7>>>>>>, <<"rotl^", 7, 31, 0>>>>,   \* 1637
    <<<<"+=", 2, <<<<"b", 5>>>>>>, <<"rotl^", 5, 44, 2>>>>,   \* 1638
    <<<<"+=", 4, <<<<"b", 3>>>>>>, <<"rotl^", 3, 47, 4>>>>,   \* 1639
    <<<<"+=", 6, <<<<"b", 1>>>>>>, <<"rotl^", 1, 46, 6>>>>,   \* 1640
    <<<<"+=", 12, <<<<"b", 15>>>>>>, <<"rotl^", 15, 19, 12>>>>,   \* 1641
    <<<<"+=", 14, <<<<"b", 13>>>>>>, <<"rotl^", 13, 42, 14>>>>,   \* 1642
    <<<<"+=", 8, <<<<"b", 11>>>>>>, <<"rotl^", 11, 44, 8>>>>,   \* 1643
    <<<<"+=", 10, <<<<"b", 9>>>>>>, <<"rotl^", 9, 25, 10>>>>,   \* 1644
    <<<<"+=", 0, <<<<"b", 15>>>>>>, <<"rotl^", 15, 9, 0>>>>,   \* 1645
    <<<<"+=", 2, <<<<"b", 11>>>>>>, <<"rotl^", 11, 48, 2>>>>,   \* 1646
    <<<<"+=", 6, <<<<"b", 13>>>>>>, <<"rotl^", 13, 35, 6>>>>,   \* 1647
    <<<<"+=", 4, <<<<"b", 9>>>>>>, <<"rotl^", 9, 52, 4>>>>,   \* 1648
    <<<<"+=", 14, <<<<"b", 1>>>>>>, <<"rotl^", 1, 23, 14>>>>,   \* 1649
    <<<<"+=", 8, <<<<"b", 5>>>>>>, <<"rotl^", 5, 31, 8>>>>,   \* 1650
    <<<<"+=", 10, <<<<"b", 3>>>>>>, <<"rotl^", 3, 37, 10>>>>,   \* 1651
    <<<<"+=", 12, <<<<"b", 7>>>>>>, <<"rotl^", 7, 20, 12>>>>   \* 1652
   >>,
   <<
    <<<<"+=", 1, <<<<"k", 9>>>>>>, <<"+=", 0, <<<<"b", 1>>, <<"k", 8>>>>>>, <<"rotl^", 1, 24, 0>>>>,   \* 1653
    <<<<"+=", 3, <<<<"k", 11>>>>>>, <<"+=", 2, <<<<"b", 3>>, <<"k", 10>>>>>>, <<"rotl^", 3, 13, 2>>>>,   \* 1654
    <<<<"+=", 5, <<<<"k", 13>>>>>>, <<"+=", 4, <<<<"b", 5>>, <<"k", 12>>>>>>, <<"rotl^", 5, 8, 4>>>>,   \* 1655
    <<<<"+=", 7, <<<<"k", 15>>>>>>, <<"+=", 6, <<<<"b", 7>>, <<"k", 14>>>>>>, <<"rotl^", 7, 47, 6>>>>,   \* 1656
    <<<<"+=", 9, <<<<"k", 0>>>>>>, <<"+=", 8, <<<<"b", 9>>, <<"k", 16>>>>>>, <<"rotl^", 9, 8, 8>>>>,   \* 1657
    <<<<"+=", 11, <<<<"k", 2>>>>>>, <<"+=", 10, <<<<"b", 11>>, <<"k", 1>>>>>>, <<"rotl^", 11, 17, 10>>>>,   \* 1658
    <<<<"+=", 13, <<<<"k", 4>>, <<"t", 2>>>>>>, <<"+=", 12, <<<<"b", 13>>, <<"k", 3>>>>>>, <<"rotl^", 13, 22, 12>>>>,   \* 1659
    <<<<"+=", 15, <<<<"k", 6>>, <<"n", 8>>>>>>, <<"+=", 14, <<<<"b", 15>>, <<"k", 5>>, <<"t", 0>>>>>>, <<"rotl^", 15, 37, 14>>>>,   \* 1660
    <<<<"+=", 0, <<<<"b", 9>>>>>>, <<"rotl^", 9, 38, 0>>>>,   \* 1661
    <<<<"+=", 2, <<<<"b", 13>>>>>>, <<"rotl^", 13, 19, 2>>>>,   \* 1662
    <<<<"+=", 6, <<<<"b", 11>>>>>>, <<"rotl^", 11, 10, 6>>>>,   \* 1663
    <<<<"+=", 4, <<<<"b", 15>>>>>>, <<"rotl^", 15, 55, 4>>>>,   \* 1664
    <<<<"+=", 10, <<<<"b", 7>>>>>>, <<"rotl^", 7, 49, 10>>>>,   \* 1665
    <<<<"+=", 12, <<<<"b", 3>>>>>>, <<"rotl^", 3, 18, 12>>>>,   \* 1666
    <<<<"+=", 14, <<<<"b", 5>>>>>>, <<"rotl^", 5, 23, 14>>>>,   \* 1667
    <<<<"+=", 8, <<<<"b", 1>>>>>>, <<"rotl^", 1, 52, 8>>>>,   \* 1668
    <<<<"+=", 0, <<<<"b", 7>>>>>>, <<"rotl^", 7, 33, 0>>>>,   \* 1669
    <<<<"+=", 2, <<<<"b", 5>>>>>>, <<"rotl^", 5, 4, 2>>>>,   \* 1670
    <<<<"+=", 4, <<<<"b", 3>>>>>>, <<"rotl^", 3, 51, 4>>>>,   \* 1671
    <<<<"+=", 6, <<<<"b", 1>>>>>>, <<"rotl^", 1, 13, 6>>>>,   \* 1672
    <<<<"+=", 12, <<<<"b", 15>>>>>>, <<"rotl^", 15, 34, 12>>>>,   \* 1673
    <<<<"+=", 14, <<<<"b", 13>>>>>>, <<"rotl^", 13, 41, 14>>>>,   \* 1674
    <<<<"+=", 8, <<<<"b", 11>>>>>>, <<"rotl^", 11, 59, 8>>>>,   \* 1675
    <<<<"+=", 10, <<<<"b", 9>>>>>>, <<"rotl^", 9, 17, 10>>>>,   \* 1676
    <<<<"+=", 0, <<<<"b", 15>>>>>>, <<"rotl^", 15, 5, 0>>>>,   \* 1677
    <<<<"+=", 2, <<<<"b", 11>>>>>>, <<"rotl^", 11, 20, 2>>>>,   \* 1678
    <<<<"+=", 6, <<<<"b", 13>>>>>>, <<"rotl^", 13, 48, 6>>>>,   \* 1679
    <<<<"+=", 4, <<<<"b", 9>>>>>>, <<"rotl^", 9, 41, 4>>>>,   \* 1680
    <<<<"+=", 14, <<<<"b", 1>>>>>>, <<"rotl^", 1, 47, 14>>>>,   \* 1681
    <<<<"+=", 8, <<<<"b", 5>>>>>>, <<"rotl^", 5, 28, 8>>>>,   \* 1682
    <<<<"+=", 10, <<<<"b", 3>>>>>>, <<"rotl^", 3, 16, 10>>>>,   \* 1683
    <<<<"+=", 12, <<<<"b", 7>>>>>>, <<"rotl^", 7, 25, 12>>>>   \* 1684
   >>,
   <<
    <<<<"+=", 1, <<<<"k", 10>>>>>>, <<"+=", 0, <<<<"b", 1>>, <<"k", 9>>>>>>, <<"rotl^", 1, 41, 0>>>>,   \* 1685
    <<<<"+=", 3, <<<<"k", 12>>>>>>, <<"+=", 2, <<<<"b", 3>>, <<"k", 11>>>>>>, <<"rotl^", 3, 9, 2>>>>,   \* 1686
    <<<<"+=", 5, <<<<"k", 14>>>>>>, <<"+=", 4, <<<<"b", 5>>, <<"k", 13>>>>>>, <<"rotl^", 5, 37, 4>>>>,   \* 1687
    <<<<"+=", 7, <<<<"k", 16>>>>>>, <<"+=", 6, <<<<"b", 7>>, <<"k", 15>>>>>>, <<"rotl^", 7, 31, 6>>>>,   \* 1688
    <<<<"+=", 9, <<<<"k", 1>>>>>>, <<"+=", 8, <<<<"b", 9>>, <<"k", 0>>>>>>, <<"rotl^", 9, 12, 8>>>>,   \* 1689
    <<<<"+=", 11, <<<<"k", 3>>>>>>, <<"+=", 10, <<<<"b", 11>>, <<"k", 2>>>>>>, <<"rotl^", 11, 47, 10>>>>,   \* 1690
    <<<<"+=", 13, <<<<"k", 5>>, <<"t", 0>>>>>>, <<"+=", 12, <<<<"b", 13>>, <<"k", 4>>>>>>, <<"rotl^", 13, 44, 12>>>>,   \* 1691
    <<<<"+=", 15, <<<<"k", 7>>, <<"n", 9>>>>>>, <<"+=", 14, <<<<"b", 15>>, <<"k", 6>>, <<"t", 1>>>>>>, <<"rotl^", 15, 30, 14>>>>,   \* 1692
    <<<<"+=", 0, <<<<"b", 9>>>>>>, <<"rotl^", 9, 16, 0>>>>,   \* 1693
    <<<<"+=", 2, <<<<"b", 13>>>>>>, <<"rotl^", 13, 34, 2>>>>,   \* 1694
    <<<<"+=", 6, <<<<"b", 11>>>>>>, <<"rotl^", 11, 56, 6>>>>,   \* 1695
    <<<<"+=", 4, <<<<"b", 15>>>>>>, <<"rotl^", 15, 51, 4>>>>,   \* 1696
    <<<<"+=", 10, <<<<"b", 7>>>>>>, <<"rotl^", 7, 4, 10>>>>,   \* 1697
    <<<<"+=", 12, <<<<"b", 3>>>>>>, <<"rotl^", 3, 53, 12>>>>,   \* 1698
    <<<<"+=", 14, <<<<"b", 5>>>>>>, <<"rotl^", 5, 42, 14>>>>,   \* 1699
    <<<<"+=", 8, <<<<"b", 1>>>>>>, <<"rotl^", 1, 41, 8>>>>,   \* 1700
    <<<<"+=", 0, <<<<"b", 7>>>>>>, <<"rotl^", 7, 31, 0>>>>,   \* 1701
    <<<<"+=", 2, <<<<"b", 5>>>>>>, <<"rotl^", 5, 44, 2>>>>,   \* 1702
    <<<<"+=", 4, <<<<"b", 3>>>>>>, <<"rotl^", 3, 47, 4>>>>,   \* 1703
    <<<<"+=", 6, <<<<"b", 1>>>>>>, <<"rotl^", 1, 46, 6>>>>,   \* 1704
    <<<<"+=", 12, <<<<"b", 15>>>>>>, <<"rotl^", 15, 19, 12>>>>,   \* 1705
    <<<<"+=", 14, <<<<"b", 13>>>>>>, <<"rotl^", 13, 42, 14>>>>,   \* 1706
    <<<<"+=", 8, <<<<"b", 11>>>>>>, <<"rotl^", 11, 44, 8>>>>,   \* 1707
    <<<<"+=", 10, <<<<"b", 9>>>>>>, <<"rotl^", 9, 25, 10>>>>,   \* 1708
    <<<<"+=", 0, <<<<"b", 15>>>>>>, <<"rotl^", 15, 9, 0>>>>,   \* 1709
    <<<<"+=", 2, <<<<"b", 11>>>>>>, <<"rotl^", 11, 48, 2>>>>,   \* 1710
    <<<<"+=", 6, <<<<"b", 13>>>>>>, <<"rotl^", 13, 35, 6>>>>,   \* 1711
    <<<<"+=", 4, <<<<"b", 9>>>>>>, <<"rotl^", 9, 52, 4>>>>,   \* 1712
    <<<<"+=", 14, <<<<"b", 1>>>>>>, <<"rotl^", 1, 23, 14>>>>,   \* 1713
    <<<<"+=", 8, <<<<"b", 5>>>>>>, <<"rotl^", 5, 31, 8>>>>,   \* 1714
    <<<<"+=", 10, <<<<"b", 3>>>>>>, <<"rotl^", 3, 37, 10>>>>,   \* 1715
    <<<<"+=", 12, <<<<"b", 7>>>>>>, <<"rotl^", 7, 20, 12>>>>   \* 1716
   >>,
   <<
    <<<<"+=", 1, <<<<"k", 11>>>>>>, <<"+=", 0, <<<<"b", 1>>, <<"k", 10>>>>>>, <<"rotl^", 1, 24, 0>>>>,   \* 1717
    <<<<"+=", 3, <<<<"k", 13>>>>>>, <<"+=", 2, <<<<"b", 3>>, <<"k", 12>>>>>>, <<"rotl^", 3, 13, 2>>>>,   \* 1718
    <<<<"+=", 5, <<<<"k", 15>>>>>>, <<"+=", 4, <<<<"b", 5>>, <<"k", 14>>>>>>, <<"rotl^", 5, 8, 4>>>>,   \* 1719
    <<<<"+=", 7, <<<<"k", 0>>>>>>, <<"+=", 6, <<<<"b", 7>>, <<"k", 16>>>>>>, <<"rotl^", 7, 47, 6>>>>,   \* 1720
    <<<<"+=", 9, <<<<"k", 2>>>>>>, <<"+=", 8, <<<<"b", 9>>, <<"k", 1>>>>>>, <<"rotl^", 9, 8, 8>>>>,   \* 1721
    <<<<"+=", 11, <<<<"k", 4>>>>>>, <<"+=", 10, <<<<"b", 11>>, <<"k", 3>>>>>>, <<"rotl^", 11, 17, 10>>>>,   \* 1722
    <<<<"+=", 13, <<<<"k", 6>>, <<"t", 1>>>>>>, <<"+=", 12, <<<<"b", 13>>, <<"k", 5>>>>>>, <<"rotl^", 13, 22, 12>>>>,   \* 1723
    <<<<"+=", 15, <<<<"k", 8>>, <<"n", 10>>>>>>, <<"+=", 14, <<<<"b", 15>>, <<"k", 7>>, <<"t", 2>>>>>>, <<"rotl^", 15, 37, 14>>>>,   \* 1724
    <<<<"+=", 0, <<<<"b", 9>>>>>>, <<"rotl^", 9, 38, 0>>>>,   \* 1725
    <<<<"+=", 2, <<<<"b", 13>>>>>>, <<"rotl^", 13, 19, 2>>>>,   \* 1726
    <<<<"+=", 6, <<<<"b", 11>>>>>>, <<"rotl^", 11, 10, 6>>>>,   \* 1727
    <<<<"+=", 4, <<<<"b", 15>>>>>>, <<"rotl^", 15, 55, 4>>>>,   \* 1728
    <<<<"+=", 10, <<<<"b", 7>>>>>>, <<"rotl^", 7, 49, 10>>>>,   \* 1729
    <<<<"+=", 12, <<<<"b", 3>>>>>>, <<"rotl^", 3, 18, 12>>>>,   \* 1730
    <<<<"+=", 14, <<<<"b", 5>>>>>>, <<"rotl^", 5, 23, 14>>>>,   \* 1731
    <<<<"+=", 8, <<<<"b", 1>>>>>>, <<"rotl^", 1, 52, 8>>>>,   \* 1732
    <<<<"+=", 0, <<<<"b", 7>>>>>>, <<"rotl^", 7, 33, 0>>>>,   \* 1733
    <<<<"+=", 2, <<<<"b", 5>>>>>>, <<"rotl^", 5, 4, 2>>>>,   \* 1734
    <<<<"+=", 4, <<<<"b", 3>>>>>>, <<"rotl^", 3, 51, 4>>>>,   \* 1735
    <<<<"+=", 6, <<<<"b", 1>>>>>>, <<"rotl^", 1, 13, 6>>>>,   \* 1736
    <<<<"+=", 12, <<<<"b", 15>>>>>>, <<"rotl^", 15, 34, 12>>>>,   \* 1737
    <<<<"+=", 14, <<<<"b", 13>>>>>>, <<"rotl^", 13, 41, 14>>>>,   \* 1738
    <<<<"+=", 8, <<<<"b", 11>>>>>>, <<"rotl^", 11, 59, 8>>>>,   \* 1739
    <<<<"+=", 10, <<<<"b", 9>>>>>>, <<"rotl^", 9, 17, 10>>>>,   \* 1740
    <<<<"+=", 0, <<<<"b", 15>>>>>>, <<"rotl^", 15, 5, 0>>>>,   \* 1741
    <<<<"+=", 2, <<<<"b", 11>>>>>>, <<"rotl^", 11, 20, 2>>>>,   \* 1742
    <<<<"+=", 6, <<<<"b", 13>>>>>>, <<"rotl^", 13, 48, 6>>>>,   \* 1743
    <<<<"+=", 4, <<<<"b", 9>>>>>>, <<"rotl^", 9, 41, 4>>>>,   \* 1744
    <<<<"+=", 14, <<<<"b", 1>>>>>>, <<"rotl^", 1, 47, 14>>>>,   \* 1745
    <<<<"+=", 8, <<<<"b", 5>>>>>>, <<"rotl^", 5, 28, 8>>>>,   \* 1746
    <<<<"+=", 10, <<<<"b", 3>>>>>>, <<"rotl^", 3, 16, 10>>>>,   \* 1747
    <<<<"+=", 12, <<<<"b", 7>>>>>>, <<"rotl^", 7, 25, 12>>>>   \* 1748
   >>,
   <<
    <<<<"+=", 1, <<<<"k", 12>>>>>>, <<"+=", 0, <<<<"b", 1>>, <<"k", 11>>>>>>, <<"rotl^", 1, 41, 0>>>>,   \* 1749
    <<<<"+=", 3, <<<<"k", 14>>>>>>, <<"+=", 2, <<<<"b", 3>>, <<"k", 13>>>>>>, <<"rotl^", 3, 9, 2>>>>,   \* 1750
    <<<<"+=", 5, <<<<"k", 16>>>>>>, <<"+=", 4, <<<<"b", 5>>, <<"k", 15>>>>>>, <<"rotl^", 5, 37, 4>>>>,   \* 1751
    <<<<"+=", 7, <<<<"k", 1>>>>>>, <<"+=", 6, <<<<"b", 7>>, <<"k", 0>>>>>>, <<"rotl^", 7, 31, 6>>>>,   \* 1752
    <<<<"+=", 9, <<<<"k", 3>>>>>>, <<"+=", 8, <<<<"b", 9>>, <<"k", 2>>>>>>, <<"rotl^", 9, 12, 8>>>>,   \* 1753
    <<<<"+=", 11, <<<<"k", 5>>>>>>, <<"+=", 10, <<<<"b", 11>>, <<"k", 4>>>>>>, <<"rotl^", 11, 47, 10>>>>,   \* 1754
    <<<<"+=", 13, <<<<"k", 7>>, <<"t", 2>>>>>>, <<"+=", 12, <<<<"b", 13>>, <<"k", 6>>>>>>, <<"rotl^", 13, 44, 12>>>>,   \* 1755
    <<<<"+=", 15, <<<<"k", 9>>, <<"n", 11>>>>>>, <<"+=", 14, <<<<"b", 15>>, <<"k", 8>>, <<"t", 0>>>>>>, <<"rotl^", 15, 30, 14>>>>,   \* 1756
    <<<<"+=", 0, <<<<"b", 9>>>>>>, <<"rotl^", 9, 16, 0>>>>,   \* 1757
    <<<<"+=", 2, <<<<"b", 13>>>>>>, <<"rotl^", 13, 34, 2>>>>,   \* 1758
    <<<<"+=", 6, <<<<"b", 11>>>>>>, <<"rotl^", 11, 56, 6>>>>,   \* 1759
    <<<<"+=", 4, <<<<"b", 15>>>>>>, <<"rotl^", 15, 51, 4>>>>,   \* 1760
    <<<<"+=", 10, <<<<"b", 7>>>>>>, <<"rotl^", 7, 4, 10>>>>,   \* 1761
    <<<<"+=", 12, <<<<"b", 3>>>>>>, <<"rotl^", 3, 53, 12>>>>,   \* 1762
    <<<<"+=", 14, <<<<"b", 5>>>>>>, <<"rotl^", 5, 42, 14>>>>,   \* 1763
    <<<<"+=", 8, <<<<"b", 1>>>>>>, <<"rotl^", 1, 41, 8>>>>,   \* 1764
    <<<<"+=", 0, <<<<"b", 7>>>>>>, <<"rotl^", 7, 31, 0>>>>,   \* 1765
    <<<<"+=", 2, <<<<"b", 5>>>>>>, <<"rotl^", 5, 44, 2>>>>,   \* 1766
    <<<<"+=", 4, <<<<"b", 3>>>>>>, <<"rotl^", 3, 47, 4>>>>,   \* 1767
    <<<<"+=", 6, <<<<"b", 1>>>>>>, <<"rotl^", 1, 46, 6>>>>,   \* 1768
    <<<<"+=", 12, <<<<"b", 15>>>>>>, <<"rotl^", 15, 19, 12>>>>,   \* 1769
    <<<<"+=", 14, <<<<"b", 13>>>>>>, <<"rotl^", 13, 42, 14>>>>,   \* 1770
    <<<<"+=", 8, <<<<"b", 11>>>>>>, <<"rotl^", 11, 44, 8>>>>,   \* 1771
    <<<<"+=", 10, <<<<"b", 9>>>>>>, <<"rotl^", 9, 25, 10>>>>,   \* 1772
    <<<<"+=", 0, <<<<"b", 15>>>>>>, <<"rotl^", 15, 9, 0>>>>,   \* 1773
    <<<<"+=", 2, <<<<"b", 11>>>>>>, <<"rotl^", 11, 48, 2>>>>,   \* 1774
    <<<<"+=", 6, <<<<"b", 13>>>>>>, <<"rotl^", 13, 35, 6>>>>,   \* 1775
    <<<<"+=", 4, <<<<"b", 9>>>>>>, <<"rotl^", 9, 52, 4>>>>,   \* 1776
    <<<<"+=", 14, <<<<"b", 1>>>>>>, <<"rotl^", 1, 23, 14>>>>,   \* 1777
    <<<<"+=", 8, <<<<"b", 5>>>>>>, <<"rotl^", 5, 31, 8>>>>,   \* 1778
    <<<<"+=", 10, <<<<"b", 3>>>>>>, <<"rotl^", 3, 37, 10>>>>,   \* 1779
    <<<<"+=", 12, <<<<"b", 7>>>>>>, <<"rotl^", 7, 20, 12>>>>   \* 1780
   >>,
   <<
    <<<<"+=", 1, <<<<"k", 13>>>>>>, <<"+=", 0, <<<<"b", 1>>, <<"k", 12>>>>>>, <<"rotl^", 1, 24, 0>>>>,   \* 1781
    <<<<"+=", 3, <<<<"k", 15>>>>>>, <<"+=", 2, <<<<"b", 3>>, <<"k", 14>>>>>>, <<"rotl^", 3, 13, 2>>>>,   \* 1782
    <<<<"+=", 5, <<<<"k", 0>>>>>>, <<"+=", 4, <<<<"b", 5>>, <<"k", 16>>>>>>, <<"rotl^", 5, 8, 4>>>>,   \* 1783
    <<<<"+=", 7, <<<<"k", 2>>>>>>, <<"+=", 6, <<<<"b", 7>>, <<"k", 1>>>>>>, <<"rotl^", 7, 47, 6>>>>,   \* 1784
    <<<<"+=", 9, <<<<"k", 4>>>>>>, <<"+=", 8, <<<<"b", 9>>, <<"k", 3>>>>>>, <<"rotl^", 9, 8, 8>>>>,   \* 1785
    <<<<"+=", 11, <<<<"k", 6>>>>>>, <<"+=", 10, <<<<"b", 11>>, <<"k", 5>>>>>>, <<"rotl^", 11, 17, 10>>>>,   \* 1786
    <<<<"+=", 13, <<<<"k", 8>>, <<"t", 0>>>>>>, <<"+=", 12, <<<<"b", 13>>, <<"k", 7>>>>>>, <<"rotl^", 13, 22, 12>>>>,   \* 1787
    <<<<"+=", 15, <<<<"k", 10>>, <<"n", 12>>>>>>, <<"+=", 14, <<<<"b", 15>>, <<"k", 9>>, <<"t", 1>>>>>>, <<"rotl^", 15, 37, 14>>>>,   \* 1788
    <<<<"+=", 0, <<<<"b", 9>>>>>>, <<"rotl^", 9, 38, 0>>>>,   \* 1789
    <<<<"+=", 2, <<<<"b", 13>>>>>>, <<"rotl^", 13, 19, 2>>>>,   \* 1790
    <<<<"+=", 6, <<<<"b", 11>>>>>>, <<"rotl^", 11, 10, 6>>>>,   \* 1791
    <<<<"+=", 4, <<<<"b", 15>>>>>>, <<"rotl^", 15, 55, 4>>>>,   \* 1792
    <<<<"+=", 10, <<<<"b", 7>>>>>>, <<"rotl^", 7, 49, 10>>>>,   \* 1793
    <<<<"+=", 12, <<<<"b", 3>>>>>>, <<"rotl^", 3, 18, 12>>>>,   \* 1794
    <<<<"+=", 14, <<<<"b", 5>>>>>>, <<"rotl^", 5, 23, 14>>>>,   \* 1795
    <<<<"+=", 8, <<<<"b", 1>>>>>>, <<"rotl^", 1, 52, 8>>>>,   \* 1796
    <<<<"+=", 0, <<<<"b", 7>>>>>>, <<"rotl^", 7, 33, 0>>>>,   \* 1797
    <<<<"+=", 2, <<<<"b", 5>>>>>>, <<"rotl^", 5, 4, 2>>>>,   \* 1798
    <<<<"+=", 4, <<<<"b", 3>>>>>>, <<"rotl^", 3, 51, 4>>>>,   \* 1799
    <<<<"+=", 6, <<<<"b", 1>>>>>>, <<"rotl^", 1, 13, 6>>>>,   \* 1800
    <<<<"+=", 12, <<<<"b", 15>>>>>>, <<"rotl^", 15, 34, 12>>>>,   \* 1801
    <<<<"+=", 14, <<<<"b", 13>>>>>>, <<"rotl^", 13, 41, 14>>>>,   \* 1802
    <<<<"+=", 8, <<<<"b", 11>>>>>>, <<"rotl^", 11, 59, 8>>>>,   \* 1803
    <<<<"+=", 10, <<<<"b", 9>>>>>>, <<"rotl^", 9, 17, 10>>>>,   \* 1804
    <<<<"+=", 0, <<<<"b", 15>>>>>>, <<"rotl^", 15, 5, 0>>>>,   \* 1805
    <<<<"+=", 2, <<<<"b", 11>>>>>>, <<"rotl^", 11, 20, 2>>>>,   \* 1806
    <<<<"+=", 6, <<<<"b", 13>>>>>>, <<"rotl^", 13, 48, 6>>>>,   \* 1807
    <<<<"+=", 4, <<<<"b", 9>>>>>>, <<"rotl^", 9, 41, 4>>>>,   \* 1808
    <<<<"+=", 14, <<<<"b", 1>>>>>>, <<"rotl^", 1, 47, 14>>>>,   \* 1809
    <<<<"+=", 8, <<<<"b", 5>>>>>>, <<"rotl^", 5, 28, 8>>>>,   \* 1810
    <<<<"+=", 10, <<<<"b", 3>>>>>>, <<"rotl^", 3, 16, 10>>>>,   \* 1811
    <<<<"+=", 12, <<<<"b", 7>>>>>>, <<"rotl^", 7, 25, 12>>>>   \* 1812
   >>,
   <<
    <<<<"+=", 1, <<<<"k", 14>>>>>>, <<"+=", 0, <<<<"b", 1>>, <<"k", 13>>>>>>, <<"rotl^", 1, 41, 0>>>>,   \* 1813
    <<<<"+=", 3, <<<<"k", 16>>>>>>, <<"+=", 2, <<<<"b", 3>>, <<"k", 15>>>>>>, <<"rotl^", 3, 9, 2>>>>,   \* 1814
    <<<<"+=", 5, <<<<"k", 1>>>>>>, <<"+=", 4, <<<<"b", 5>>, <<"k", 0>>>>>>, <<"rotl^", 5, 37, 4>>>>,   \* 1815
    <<<<"+=", 7, <<<<"k", 3>>>>>>, <<"+=", 6, <<<<"b", 7>>, <<"k", 2>>>>>>, <<"rotl^", 7, 31, 6>>>>,   \* 1816
    <<<<"+=", 9, <<<<"k", 5>>>>>>, <<"+=", 8, <<<<"b", 9>>, <<"k", 4>>>>>>, <<"rotl^", 9, 12, 8>>>>,   \* 1817
    <<<<"+=", 11, <<<<"k", 7>>>>>>, <<"+=", 10, <<<<"b", 11>>, <<"k", 6>>>>>>, <<"rotl^", 11, 47, 10>>>>,   \* 1818
    <<<<"+=", 13, <<<<"k", 9>>, <<"t", 1>>>>>>, <<"+=", 12, <<<<"b", 13>>, <<"k", 8>>>>>>, <<"rotl^", 13, 44, 12>>>>,   \* 1819
    <<<<"+=", 15, <<<<"k", 11>>, <<"n", 13>>>>>>, <<"+=", 14, <<<<"b", 15>>, <<"k", 10>>, <<"t", 2>>>>>>, <<"rotl^", 15, 30, 14>>>>,   \* 1820
    <<<<"+=", 0, <<<<"b", 9>>>>>>, <<"rotl^", 9, 16, 0>>>>,   \* 1821
    <<<<"+=", 2, <<<<"b", 13>>>>>>, <<"rotl^", 13, 34, 2>>>>,   \* 1822
    <<<<"+=", 6, <<<<"b", 11>>>>>>, <<"rotl^", 11, 56, 6>>>>,   \* 1823
    <<<<"+=", 4, <<<<"b", 15>>>>>>, <<"rotl^", 15, 51, 4>>>>,   \* 1824
    <<<<"+=", 10, <<<<"b", 7>>>>>>, <<"rotl^", 7, 4, 10>>>>,   \* 1825
    <<<<"+=", 12, <<<<"b", 3>>>>>>, <<"rotl^", 3, 53, 12>>>>,   \* 1826
    <<<<"+=", 14, <<<<"b", 5>>>>>>, <<"rotl^", 5, 42, 14>>>>,   \* 1827
    <<<<"+=", 8, <<<<"b", 1>>>>>>, <<"rotl^", 1, 41, 8>>>>,   \* 1828
    <<<<"+=", 0, <<<<"b", 7>>>>>>, <<"rotl^", 7, 31, 0>>>>,   \* 1829
    <<<<"+=", 2, <<<<"b", 5>>>>>>, <<"rotl^", 5, 44, 2>>>>,   \* 1830
    <<<<"+=", 4, <<<<"b", 3>>>>>>, <<"rotl^", 3, 47, 4>>>>,   \* 1831
    <<<<"+=", 6, <<<<"b", 1>>>>>>, <<"rotl^", 1, 46, 6>>>>,   \* 1832
    <<<<"+=", 12, <<<<"b", 15>>>>>>, <<"rotl^", 15, 19, 12>>>>,   \* 1833
    <<<<"+=", 14, <<<<"b", 13>>>>>>, <<"rotl^", 13, 42, 14>>>>,   \* 1834
    <<<<"+=", 8, <<<<"b", 11>>>>>>, <<"rotl^", 11, 44, 8>>>>,   \* 1835
    <<<<"+=", 10, <<<<"b", 9>>>>>>, <<"rotl^", 9, 25, 10>>>>,   \* 1836
    <<<<"+=", 0, <<<<"b", 15>>>>>>, <<"rotl^", 15, 9, 0>>>>,   \* 1837
    <<<<"+=", 2, <<<<"b", 11>>>>>>, <<"rotl^", 11, 48, 2>>>>,   \* 1838
    <<<<"+=", 6, <<<<"b", 13>>>>>>, <<"rotl^", 13, 35, 6>>>>,   \* 1839
    <<<<"+=", 4, <<<<"b", 9>>>>>>, <<"rotl^", 9, 52, 4>>>>,   \* 1840
    <<<<"+=", 14, <<<<"b", 1>>>>>>, <<"rotl^", 1, 23, 14>>>>,   \* 1841
    <<<<"+=", 8, <<<<"b", 5>>>>>>, <<"rotl^", 5, 31, 8>>>>,   \* 1842
    <<<<"+=", 10, <<<<"b", 3>>>>>>, <<"rotl^", 3, 37, 10>>>>,   \* 1843
    <<<<"+=", 12, <<<<"b", 7>>>>>>, <<"rotl^", 7, 20, 12>>>>   \* 1844
   >>,
   <<
    <<<<"+=", 1, <<<<"k", 15>>>>>>, <<"+=", 0, <<<<"b", 1>>, <<"k", 14>>>>>>, <<"rotl^", 1, 24, 0>>>>,   \* 1845
    <<<<"+=", 3, <<<<"k", 0>>>>>>, <<"+=", 2, <<<<"b", 3>>, <<"k", 16>>>>>>, <<"rotl^", 3, 13, 2>>>>,   \* 1846
    <<<<"+=", 5, <<<<"k", 2>>>>>>, <<"+=", 4, <<<<"b", 5>>, <<"k", 1>>>>>>, <<"rotl^", 5, 8, 4>>>>,   \* 1847
    <<<<"+=", 7, <<<<"k", 4>>>>>>, <<"+=", 6, <<<<"b", 7>>, <<"k", 3>>>>>>, <<"rotl^", 7, 47, 6>>>>,   \* 1848
    <<<<"+=", 9, <<<<"k", 6>>>>>>, <<"+=", 8, <<<<"b", 9>>, <<"k", 5>>>>>>, <<"rotl^", 9, 8, 8>>>>,   \* 1849
    <<<<"+=", 11, <<<<"k", 8>>>>>>, <<"+=", 10, <<<<"b", 11>>, <<"k", 7>>>>>>, <<"rotl^", 11, 17, 10>>>>,   \* 1850
    <<<<"+=", 13, <<<<"k", 10>>, <<"t", 2>>>>>>, <<"+=", 12, <<<<"b", 13>>, <<"k", 9>>>>>>, <<"rotl^", 13, 22, 12>>>>,   \* 1851
    <<<<"+=", 15, <<<<"k", 12>>, <<"n", 14>>>>>>, <<"+=", 14, <<<<"b", 15>>, <<"k", 11>>, <<"t", 0>>>>>>, <<"rotl^", 15, 37, 14>>>>,   \* 1852
    <<<<"+=", 0, <<<<"b", 9>>>>>>, <<"rotl^", 9, 38, 0>>>>,   \* 1853
    <<<<"+=", 2, <<<<"b", 13>>>>>>, <<"rotl^", 13, 19, 2>>>>,   \* 1854
    <<<<"+=", 6, <<<<"b", 11>>>>>>, <<"rotl^", 11, 10, 6>>>>,   \* 1855
    <<<<"+=", 4, <<<<"b", 15>>>>>>, <<"rotl^", 15, 55, 4>>>>,   \* 1856
    <<<<"+=", 10, <<<<"b", 7>>>>>>, <<"rotl^", 7, 49, 10>>>>,   \* 1857
    <<<<"+=", 12, <<<<"b", 3>>>>>>, <<"rotl^", 3, 18, 12>>>>,   \* 1858
    <<<<"+=", 14, <<<<"b", 5>>>>>>, <<"rotl^", 5, 23, 14>>>>,   \* 1859
    <<<<"+=", 8, <<<<"b", 1>>>>>>, <<"rotl^", 1, 52, 8>>>>,   \* 1860
    <<<<"+=", 0, <<<<"b", 7>>>>>>, <<"rotl^", 7, 33, 0>>>>,   \* 1861
    <<<<"+=", 2, <<<<"b", 5>>>>>>, <<"rotl^", 5, 4, 2>>>>,   \* 1862
    <<<<"+=", 4, <<<<"b", 3>>>>>>, <<"rotl^", 3, 51, 4>>>>,   \* 1863
    <<<<"+=", 6, <<<<"b", 1>>>>>>, <<"rotl^", 1, 13, 6>>>>,   \* 1864
    <<<<"+=", 12, <<<<"b", 15>>>>>>, <<"rotl^", 15, 34, 12>>>>,   \* 1865
    <<<<"+=", 14, <<<<"b", 13>>>>>>, <<"rotl^", 13, 41, 14>>>>,   \* 1866
    <<<<"+=", 8, <<<<"b", 11>>>>>>, <<"rotl^", 11, 59, 8>>>>,   \* 1867
    <<<<"+=", 10, <<<<"b", 9>>>>>>, <<"rotl^", 9, 17, 10>>>>,   \* 1868
    <<<<"+=", 0, <<<<"b", 15>>>>>>, <<"rotl^", 15, 5, 0>>>>,   \* 1869
    <<<<"+=", 2, <<<<"b", 11>>>>>>, <<"rotl^", 11, 20, 2>>>>,   \* 1870
    <<<<"+=", 6, <<<<"b", 13>>>>>>, <<"rotl^", 13, 48, 6>>>>,   \* 1871
    <<<<"+=", 4, <<<<"b", 9>>>>>>, <<"rotl^", 9, 41, 4>>>>,   \* 1872
    <<<<"+=", 14, <<<<"b", 1>>>>>>, <<"rotl^", 1, 47, 14>>>>,   \* 1873
    <<<<"+=", 8, <<<<"b", 5>>>>>>, <<"rotl^", 5, 28, 8>>>>,   \* 1874
    <<<<"+=", 10, <<<<"b", 3>>>>>>, <<"rotl^", 3, 16, 10>>>>,   \* 1875
    <<<<"+=", 12, <<<<"b", 7>>>>>>, <<"rotl^", 7, 25, 12>>>>   \* 1876
   >>,
   <<
    <<<<"+=", 1, <<<<"k", 16>>>>>>, <<"+=", 0, <<<<"b", 1>>, <<"k", 15>>>>>>, <<"rotl^", 1, 41, 0>>>>,   \* 1877
    <<<<"+=", 3, <<<<"k", 1>>>>>>, <<"+=", 2, <<<<"b", 3>>, <<"k", 0>>>>>>, <<"rotl^", 3, 9, 2>>>>,   \* 1878
    <<<<"+=", 5, <<<<"k", 3>>>>>>, <<"+=", 4, <<<<"b", 5>>, <<"k", 2>>>>>>, <<"rotl^", 5, 37, 4>>>>,   \* 1879
    <<<<"+=", 7, <<<<"k", 5>>>>>>, <<"+=", 6, <<<<"b", 7>>, <<"k", 4>>>>>>, <<"rotl^", 7, 31, 6>>>>,   \* 1880
    <<<<"+=", 9, <<<<"k", 7>>>>>>, <<"+=", 8, <<<<"b", 9>>, <<"k", 6>>>>>>, <<"rotl^", 9, 12, 8>>>>,   \* 1881
    <<<<"+=", 11, <<<<"k", 9>>>>>>, <<"+=", 10, <<<<"b", 11>>, <<"k", 8>>>>>>, <<"rotl^", 11, 47, 10>>>>,   \* 1882
    <<<<"+=", 13, <<<<"k", 11>>, <<"t", 0>>>>>>, <<"+=", 12, <<<<"b", 13>>, <<"k", 10>>>>>>, <<"rotl^", 13, 44, 12>>>>,   \* 1883
    <<<<"+=", 15, <<<<"k", 13>>, <<"n", 15>>>>>>, <<"+=", 14, <<<<"b", 15>>, <<"k", 12>>, <<"t", 1>>>>>>, <<"rotl^", 15, 30, 14>>>>,   \* 1884
    <<<<"+=", 0, <<<<"b", 9>>>>>>, <<"rotl^", 9, 16, 0>>>>,   \* 1885
    <<<<"+=", 2, <<<<"b", 13>>>>>>, <<"rotl^", 13, 34, 2>>>>,   \* 1886
    <<<<"+=", 6, <<<<"b", 11>>>>>>, <<"rotl^", 11, 56, 6>>>>,   \* 1887
    <<<<"+=", 4, <<<<"b", 15>>>>>>, <<"rotl^", 15, 51, 4>>>>,   \* 1888
    <<<<"+=", 10, <<<<"b", 7>>>>>>, <<"rotl^", 7, 4, 10>>>>,   \* 1889
    <<<<"+=", 12, <<<<"b", 3>>>>>>, <<"rotl^", 3, 53, 12>>>>,   \* 1890
    <<<<"+=", 14, <<<<"b", 5>>>>>>, <<"rotl^", 5, 42, 14>>>>,   \* 1891
    <<<<"+=", 8, <<<<"b", 1>>>>>>, <<"rotl^", 1, 41, 8>>>>,   \* 1892
    <<<<"+=", 0, <<<<"b", 7>>>>>>, <<"rotl^", 7, 31, 0>>>>,   \* 1893
    <<<<"+=", 2, <<<<"b", 5>>>>>>, <<"rotl^", 5, 44, 2>>>>,   \* 1894
    <<<<"+=", 4, <<<<"b", 3>>>>>>, <<"rotl^", 3, 47, 4>>>>,   \* 1895
    <<<<"+=", 6, <<<<"b", 1>>>>>>, <<"rotl^", 1, 46, 6>>>>,   \* 1896
    <<<<"+=", 12, <<<<"b", 15>>>>>>, <<"rotl^", 15, 19, 12>>>>,   \* 1897
    <<<<"+=", 14, <<<<"b", 13>>>>>>, <<"rotl^", 13, 42, 14>>>>,   \* 1898
    <<<<"+=", 8, <<<<"b", 11>>>>>>, <<"rotl^", 11, 44, 8>>>>,   \* 1899
    <<<<"+=", 10, <<<<"b", 9>>>>>>, <<"rotl^", 9, 25, 10>>>>,   \* 1900
    <<<<"+=", 0, <<<<"b", 15>>>>>>, <<"rotl^", 15, 9, 0>>>>,   \* 1901
    <<<<"+=", 2, <<<<"b", 11>>>>>>, <<"rotl^", 11, 48, 2>>>>,   \* 1902
    <<<<"+=", 6, <<<<"b", 13>>>>>>, <<"rotl^", 13, 35, 6>>>>,   \* 1903
    <<<<"+=", 4, <<<<"b", 9>>>>>>, <<"rotl^", 9, 52, 4>>>>,   \* 1904
    <<<<"+=", 14, <<<<"b", 1>>>>>>, <<"rotl^", 1, 23, 14>>>>,   \* 1905
    <<<<"+=", 8, <<<<"b", 5>>>>>>, <<"rotl^", 5, 31, 8>>>>,   \* 1906
    <<<<"+=", 10, <<<<"b", 3>>>>>>, <<"rotl^", 3, 37, 10>>>>,   \* 1907
    <<<<"+=", 12, <<<<"b", 7>>>>>>, <<"rotl^", 7, 20, 12>>>>   \* 1908
   >>,
   <<
    <<<<"+=", 1, <<<<"k", 0>>>>>>, <<"+=", 0, <<<<"b", 1>>, <<"k", 16>>>>>>, <<"rotl^", 1, 24, 0>>>>,   \* 1909
    <<<<"+=", 3, <<<<"k", 2>>>>>>, <<"+=", 2, <<<<"b", 3>>, <<"k", 1>>>>>>, <<"rotl^", 3, 13, 2>>>>,   \* 1910
    <<<<"+=", 5, <<<<"k", 4>>>>>>, <<"+=", 4, <<<<"b", 5>>, <<"k", 3>>>>>>, <<"rotl^", 5, 8, 4>>>>,   \* 1911
    <<<<"+=", 7, <<<<"k", 6>>>>>>, <<"+=", 6, <<<<"b", 7>>, <<"k", 5>>>>>>, <<"rotl^", 7, 47, 6>>>>,   \* 1912
    <<<<"+=", 9, <<<<"k", 8>>>>>>, <<"+=", 8, <<<<"b", 9>>, <<"k", 7>>>>>>, <<"rotl^", 9, 8, 8>>>>,   \* 1913
    <<<<"+=", 11, <<<<"k", 10>>>>>>, <<"+=", 10, <<<<"b", 11>>, <<"k", 9>>>>>>, <<"rotl^", 11, 17, 10>>>>,   \* 1914
    <<<<"+=", 13, <<<<"k", 12>>, <<"t", 1>>>>>>, <<"+=", 12, <<<<"b", 13>>, <<"k", 11>>>>>>, <<"rotl^", 13, 22, 12>>>>,   \* 1915
    <<<<"+=", 15, <<<<"k", 14>>, <<"n", 16>>>>>>, <<"+=", 14, <<<<"b", 15>>, <<"k", 13>>, <<"t", 2>>>>>>, <<"rotl^", 15, 37, 14>>>>,   \* 1916
    <<<<"+=", 0, <<<<"b", 9>>>>>>, <<"rotl^", 9, 38, 0>>>>,   \* 1917
    <<<<"+=", 2, <<<<"b", 13>>>>>>, <<"rotl^", 13, 19, 2>>>>,   \* 1918
    <<<<"+=", 6, <<<<"b", 11>>>>>>, <<"rotl^", 11, 10, 6>>>>,   \* 1919
    <<<<"+=", 4, <<<<"b", 15>>>>>>, <<"rotl^", 15, 55, 4>>>>,   \* 1920
    <<<<"+=", 10, <<<<"b", 7>>>>>>, <<"rotl^", 7, 49, 10>>>>,   \* 1921
    <<<<"+=", 12, <<<<"b", 3>>>>>>, <<"rotl^", 3, 18, 12>>>>,   \* 1922
    <<<<"+=", 14, <<<<"b", 5>>>>>>, <<"rotl^", 5, 23, 14>>>>,   \* 1923
    <<<<"+=", 8, <<<<"b", 1>>>>>>, <<"rotl^", 1, 52, 8>>>>,   \* 1924
    <<<<"+=", 0, <<<<"b", 7>>>>>>, <<"rotl^", 7, 33, 0>>>>,   \* 1925
    <<<<"+=", 2, <<<<"b", 5>>>>>>, <<"rotl^", 5, 4, 2>>>>,   \* 1926
    <<<<"+=", 4, <<<<"b", 3>>>>>>, <<"rotl^", 3, 51, 4>>>>,   \* 1927
    <<<<"+=", 6, <<<<"b", 1>>>>>>, <<"rotl^", 1, 13, 6>>>>,   \* 1928
    <<<<"+=", 12, <<<<"b", 15>>>>>>, <<"rotl^", 15, 34, 12>>>>,   \* 1929
    <<<<"+=", 14, <<<<"b", 13>>>>>>, <<"rotl^", 13, 41, 14>>>>,   \* 1930
    <<<<"+=", 8, <<<<"b", 11>>>>>>, <<"rotl^", 11, 59, 8>>>>,   \* 1931
    <<<<"+=", 10, <<<<"b", 9>>>>>>, <<"rotl^", 9, 17, 10>>>>,   \* 1932
    <<<<"+=", 0, <<<<"b", 15>>>>>>, <<"rotl^", 15, 5, 0>>>>,   \* 1933
    <<<<"+=", 2, <<<<"b", 11>>>>>>, <<"rotl^", 11, 20, 2>>>>,   \* 1934
    <<<<"+=", 6, <<<<"b", 13>>>>>>, <<"rotl^", 13, 48, 6>>>>,   \* 1935
    <<<<"+=", 4, <<<<"b", 9>>>>>>, <<"rotl^", 9, 41, 4>>>>,   \* 1936
    <<<<"+=", 14, <<<<"b", 1>>>>>>, <<"rotl^", 1, 47, 14>>>>,   \* 1937
    <<<<"+=", 8, <<<<"b", 5>>>>>>, <<"rotl^", 5, 28, 8>>>>,   \* 1938
    <<<<"+=", 10, <<<<"b", 3>>>>>>, <<"rotl^", 3, 16, 10>>>>,   \* 1939
    <<<<"+=", 12, <<<<"b", 7>>>>>>, <<"rotl^", 7, 25, 12>>>>   \* 1940
   >>,
   <<
    <<<<"+=", 1, <<<<"k", 1>>>>>>, <<"+=", 0, <<<<"b", 1>>, <<"k", 0>>>>>>, <<"rotl^", 1, 41, 0>>>>,   \* 1941
    <<<<"+=", 3, <<<<"k", 3>>>>>>, <<"+=", 2, <<<<"b", 3>>, <<"k", 2>>>>>>, <<"rotl^", 3, 9, 2>>>>,   \* 1942
    <<<<"+=", 5, <<<<"k", 5>>>>>>, <<"+=", 4, <<<<"b", 5>>, <<"k", 4>>>>>>, <<"rotl^", 5, 37, 4>>>>,   \* 1943
    <<<<"+=", 7, <<<<"k", 7>>>>>>, <<"+=", 6, <<<<"b", 7>>, <<"k", 6>>>>>>, <<"rotl^", 7, 31, 6>>>>,   \* 1944
    <<<<"+=", 9, <<<<"k", 9>>>>>>, <<"+=", 8, <<<<"b", 9>>, <<"k", 8>>>>>>, <<"rotl^", 9, 12, 8>>>>,   \* 1945
    <<<<"+=", 11, <<<<"k", 11>>>>>>, <<"+=", 10, <<<<"b", 11>>, <<"k", 10>>>>>>, <<"rotl^", 11, 47, 10>>>>,   \* 1946
    <<<<"+=", 13, <<<<"k", 13>>, <<"t", 2>>>>>>, <<"+=", 12, <<<<"b", 13>>, <<"k", 12>>>>>>, <<"rotl^", 13, 44, 12>>>>,   \* 1947
    <<<<"+=", 15, <<<<"k", 15>>, <<"n", 17>>>>>>, <<"+=", 14, <<<<"b", 15>>, <<"k", 14>>, <<"t", 0>>>>>>, <<"rotl^", 15, 30, 14>>>>,   \* 1948
    <<<<"+=", 0, <<<<"b", 9>>>>>>, <<"rotl^", 9, 16, 0>>>>,   \* 1949
    <<<<"+=", 2, <<<<"b", 13>>>>>>, <<"rotl^", 13, 34, 2>>>>,   \* 1950
    <<<<"+=", 6, <<<<"b", 11>>>>>>, <<"rotl^", 11, 56, 6>>>>,   \* 1951
    <<<<"+=", 4, <<<<"b", 15>>>>>>, <<"rotl^", 15, 51, 4>>>>,   \* 1952
    <<<<"+=", 10, <<<<"b", 7>>>>>>, <<"rotl^", 7, 4, 10>>>>,   \* 1953
    <<<<"+=", 12, <<<<"b", 3>>>>>>, <<"rotl^", 3, 53, 12>>>>,   \* 1954
    <<<<"+=", 14, <<<<"b", 5>>>>>>, <<"rotl^", 5, 42, 14>>>>,   \* 1955
    <<<<"+=", 8, <<<<"b", 1>>>>>>, <<"rotl^", 1, 41, 8>>>>,   \* 1956
    <<<<"+=", 0, <<<<"b", 7>>>>>>, <<"rotl^", 7, 31, 0>>>>,   \* 1957
    <<<<"+=", 2, <<<<"b", 5>>>>>>, <<"rotl^", 5, 44, 2>>>>,   \* 1958
    <<<<"+=", 4, <<<<"b", 3>>>>>>, <<"rotl^", 3, 47, 4>>>>,   \* 1959
    <<<<"+=", 6, <<<<"b", 1>>>>>>, <<"rotl^", 1, 46, 6>>>>,   \* 1960
    <<<<"+=", 12, <<<<"b", 15>>>>>>, <<"rotl^", 15, 19, 12>>>>,   \* 1961
    <<<<"+=", 14, <<<<"b", 13>>>>>>, <<"rotl^", 13, 42, 14>>>>,   \* 1962
    <<<<"+=", 8, <<<<"b", 11>>>>>>, <<"rotl^", 11, 44, 8>>>>,   \* 1963
    <<<<"+=", 10, <<<<"b", 9>>>>>>, <<"rotl^", 9, 25, 10>>>>,   \* 1964
    <<<<"+=", 0, <<<<"b", 15>>>>>>, <<"rotl^", 15, 9, 0>>>>,   \* 1965
    <<<<"+=", 2, <<<<"b", 11>>>>>>, <<"rotl^", 11, 48, 2>>>>,   \* 1966
    <<<<"+=", 6, <<<<"b", 13>>>>>>, <<"rotl^", 13, 35, 6>>>>,   \* 1967
    <<<<"+=", 4, <<<<"b", 9>>>>>>, <<"rotl^", 9, 52, 4>>>>,   \* 1968
    <<<<"+=", 14, <<<<"b", 1>>>>>>, <<"rotl^", 1, 23, 14>>>>,   \* 1969
    <<<<"+=", 8, <<<<"b", 5>>>>>>, <<"rotl^", 5, 31, 8>>>>,   \* 1970
    <<<<"+=", 10, <<<<"b", 3>>>>>>, <<"rotl^", 3, 37, 10>>>>,   \* 1971
    <<<<"+=", 12, <<<<"b", 7>>>>>>, <<"rotl^", 7, 20, 12>>>>   \* 1972
   >>,
   <<
    <<<<"+=", 1, <<<<"k", 2>>>>>>, <<"+=", 0, <<<<"b", 1>>, <<"k", 1>>>>>>, <<"rotl^", 1, 24, 0>>>>,   \* 1973
    <<<<"+=", 3, <<<<"k", 4>>>>>>, <<"+=", 2, <<<<"b", 3>>, <<"k", 3>>>>>>, <<"rotl^", 3, 13, 2>>>>,   \* 1974
    <<<<"+=", 5, <<<<"k", 6>>>>>>, <<"+=", 4, <<<<"b", 5>>, <<"k", 5>>>>>>, <<"rotl^", 5, 8, 4>>>>,   \* 1975
    <<<<"+=", 7, <<<<"k", 8>>>>>>, <<"+=", 6, <<<<"b", 7>>, <<"k", 7>>>>>>, <<"rotl^", 7, 47, 6>>>>,   \* 1976
    <<<<"+=", 9, <<<<"k", 10>>>>>>, <<"+=", 8, <<<<"b", 9>>, <<"k", 9>>>>>>, <<"rotl^", 9, 8, 8>>>>,   \* 1977
    <<<<"+=", 11, <<<<"k", 12>>>>>>, <<"+=", 10, <<<<"b", 11>>, <<"k", 11>>>>>>, <<"rotl^", 11, 17, 10>>>>,   \* 1978
    <<<<"+=", 13, <<<<"k", 14>>, <<"t", 0>>>>>>, <<"+=", 12, <<<<"b", 13>>, <<"k", 13>>>>>>, <<"rotl^", 13, 22, 12>>>>,   \* 1979
    <<<<"+=", 15, <<<<"k", 16>>, <<"n", 18>>>>>>, <<"+=", 14, <<<<"b", 15>>, <<"k", 15>>, <<"t", 1>>>>>>, <<"rotl^", 15, 37, 14>>>>,   \* 1980
    <<<<"+=", 0, <<<<"b", 9>>>>>>, <<"rotl^", 9, 38, 0>>>>,   \* 1981
    <<<<"+=", 2, <<<<"b", 13>>>>>>, <<"rotl^", 13, 19, 2>>>>,   \* 1982
    <<<<"+=", 6, <<<<"b", 11>>>>>>, <<"rotl^", 11, 10, 6>>>>,   \* 1983
    <<<<"+=", 4, <<<<"b", 15>>>>>>, <<"rotl^", 15, 55, 4>>>>,   \* 1984
    <<<<"+=", 10, <<<<"b", 7>>>>>>, <<"rotl^", 7, 49, 10>>>>,   \* 1985
    <<<<"+=", 12, <<<<"b", 3>>>>>>, <<"rotl^", 3, 18, 12>>>>,   \* 1986
    <<<<"+=", 14, <<<<"b", 5>>>>>>, <<"rotl^", 5, 23, 14>>>>,   \* 1987
    <<<<"+=", 8, <<<<"b", 1>>>>>>, <<"rotl^", 1, 52, 8>>>>,   \* 1988
    <<<<"+=", 0, <<<<"b", 7>>>>>>, <<"rotl^", 7, 33, 0>>>>,   \* 1989
    <<<<"+=", 2, <<<<"b", 5>>>>>>, <<"rotl^", 5, 4, 2>>>>,   \* 1990
    <<<<"+=", 4, <<<<"b", 3>>>>>>, <<"rotl^", 3, 51, 4>>>>,   \* 1991
    <<<<"+=", 6, <<<<"b", 1>>>>>>, <<"rotl^", 1, 13, 6>>>>,   \* 1992
    <<<<"+=", 12, <<<<"b", 15>>>>>>, <<"rotl^", 15, 34, 12>>>>,   \* 1993
    <<<<"+=", 14, <<<<"b", 13>>>>>>, <<"rotl^", 13, 41, 14>>>>,   \* 1994
    <<<<"+=", 8, <<<<"b", 11>>>>>>, <<"rotl^", 11, 59, 8>>>>,   \* 1995
    <<<<"+=", 10, <<<<"b", 9>>>>>>, <<"rotl^", 9, 17, 10>>>>,   \* 1996
    <<<<"+=", 0, <<<<"b", 15>>>>>>, <<"rotl^", 15, 5, 0>>>>,   \* 1997
    <<<<"+=", 2, <<<<"b", 11>>>>>>, <<"rotl^", 11, 20, 2>>>>,   \* 1998
    <<<<"+=", 6, <<<<"b", 13>>>>>>, <<"rotl^", 13, 48, 6>>>>,   \* 1999
    <<<<"+=", 4, <<<<"b", 9>>>>>>, <<"rotl^", 9, 41, 4>>>>,   \* 2000
    <<<<"+=", 14, <<<<"b", 1>>>>>>, <<"rotl^", 1, 47, 14>>>>,   \* 2001
    <<<<"+=", 8, <<<<"b", 5>>>>>>, <<"rotl^", 5, 28, 8>>>>,   \* 2002
    <<<<"+=", 10, <<<<"b", 3>>>>>>, <<"rotl^", 3, 16, 10>>>>,   \* 2003
    <<<<"+=", 12, <<<<"b", 7>>>>>>, <<"rotl^", 7, 25, 12>>>>   \* 2004
   >>,
   <<
    <<<<"+=", 1, <<<<"k", 3>>>>>>, <<"+=", 0, <<<<"b", 1>>, <<"k", 2>>>>>>, <<"rotl^", 1, 41, 0>>>>,   \* 2005
    <<<<"+=", 3, <<<<"k", 5>>>>>>, <<"+=", 2, <<<<"b", 3>>, <<"k", 4>>>>>>, <<"rotl^", 3, 9, 2>>>>,   \* 2006
    <<<<"+=", 5, <<<<"k", 7>>>>>>, <<"+=", 4, <<<<"b", 5>>, <<"k", 6>>>>>>, <<"rotl^", 5, 37, 4>>>>,   \* 2007
    <<<<"+=", 7, <<<<"k", 9>>>>>>, <<"+=", 6, <<<<"b", 7>>, <<"k", 8>>>>>>, <<"rotl^", 7, 31, 6>>>>,   \* 2008
    <<<<"+=", 9, <<<<"k", 11>>>>>>, <<"+=", 8, <<<<"b", 9>>, <<"k", 10>>>>>>, <<"rotl^", 9, 12, 8>>>>,   \* 2009
    <<<<"+=", 11, <<<<"k", 13>>>>>>, <<"+=", 10, <<<<"b", 11>>, <<"k", 12>>>>>>, <<"rotl^", 11, 47, 10>>>>,   \* 2010
    <<<<"+=", 13, <<<<"k", 15>>, <<"t", 1>>>>>>, <<"+=", 12, <<<<"b", 13>>, <<"k", 14>>>>>>, <<"rotl^", 13, 44, 12>>>>,   \* 2011
    <<<<"+=", 15, <<<<"k", 0>>, <<"n", 19>>>>>>, <<"+=", 14, <<<<"b", 15>>, <<"k", 16>>, <<"t", 2>>>>>>, <<"rotl^", 15, 30, 14>>>>,   \* 2012
    <<<<"+=", 0, <<<<"b", 9>>>>>>, <<"rotl^", 9, 16, 0>>>>,   \* 2013
    <<<<"+=", 2, <<<<"b", 13>>>>>>, <<"rotl^", 13, 34, 2>>>>,   \* 2014
    <<<<"+=", 6, <<<<"b", 11>>>>>>, <<"rotl^", 11, 56, 6>>>>,   \* 2015
    <<<<"+=", 4, <<<<"b", 15>>>>>>, <<"rotl^", 15, 51, 4>>>>,   \* 2016
    <<<<"+=", 10, <<<<"b", 7>>>>>>, <<"rotl^", 7, 4, 10>>>>,   \* 2017
    <<<<"+=", 12, <<<<"b", 3>>>>>>, <<"rotl^", 3, 53, 12>>>>,   \* 2018
    <<<<"+=", 14, <<<<"b", 5>>>>>>, <<"rotl^", 5, 42, 14>>>>,   \* 2019
    <<<<"+=", 8, <<<<"b", 1>>>>>>, <<"rotl^", 1, 41, 8>>>>,   \* 2020
    <<<<"+=", 0, <<<<"b", 7>>>>>>, <<"rotl^", 7, 31, 0>>>>,   \* 2021
    <<<<"+=", 2, <<<<"b", 5>>>>>>, <<"rotl^", 5, 44, 2>>>>,   \* 2022
    <<<<"+=", 4, <<<<"b", 3>>>>>>, <<"rotl^", 3, 47, 4>>>>,   \* 2023
    <<<<"+=", 6, <<<<"b", 1>>>>>>, <<"rotl^", 1, 46, 6>>>>,   \* 2024
    <<<<"+=", 12, <<<<"b", 15>>>>>>, <<"rotl^", 15, 19, 12>>>>,   \* 2025
    <<<<"+=", 14, <<<<"b", 13>>>>>>, <<"rotl^", 13, 42, 14>>>>,   \* 2026
    <<<<"+=", 8, <<<<"b", 11>>>>>>, <<"rotl^", 11, 44, 8>>>>,   \* 2027
    <<<<"+=", 10, <<<<"b", 9>>>>>>, <<"rotl^", 9, 25, 10>>>>,   \* 2028
    <<<<"+=", 0, <<<<"b", 15>>>>>>, <<"rotl^", 15, 9, 0>>>>,   \* 2029
    <<<<"+=", 2, <<<<"b", 11>>>>>>, <<"rotl^", 11, 48, 2>>>>,   \* 2030
    <<<<"+=", 6, <<<<"b", 13>>>>>>, <<"rotl^", 13, 35, 6>>>>,   \* 2031
    <<<<"+=", 4, <<<<"b", 9>>>>>>, <<"rotl^", 9, 52, 4>>>>,   \* 2032
    <<<<"+=", 14, <<<<"b", 1>>>>>>, <<"rotl^", 1, 23, 14>>>>,   \* 2033
    <<<<"+=", 8, <<<<"b", 5>>>>>>, <<"rotl^", 5, 31, 8>>>>,   \* 2034
    <<<<"+=", 10, <<<<"b", 3>>>>>>, <<"rotl^", 3, 37, 10>>>>,   \* 2035
    <<<<"+=", 12, <<<<"b", 7>>>>>>, <<"rotl^", 7, 20, 12>>>>   \* 2036
   >>,
   <<
    <<<<"out", 0, <<<<"b", 0>>, <<"k", 3>>>>>>>>,   \* 2039
    <<<<"out", 1, <<<<"b", 1>>, <<"k", 4>>>>>>>>,   \* 2040
    <<<<"out", 2, <<<<"b", 2>>, <<"k", 5>>>>>>>>,   \* 2041
    <<<<"out", 3, <<<<"b", 3>>, <<"k", 6>>>>>>>>,   \* 2042
    <<<<"out", 4, <<<<"b", 4>>, <<"k", 7>>>>>>>>,   \* 2043
    <<<<"out", 5, <<<<"b", 5>>, <<"k", 8>>>>>>>>,   \* 2044
    <<<<"out", 6, <<<<"b", 6>>, <<"k", 9>>>>>>>>,   \* 2045
    <<<<"out", 7, <<<<"b", 7>>, <<"k", 10>>>>>>>>,   \* 2046
    <<<<"out", 8, <<<<"b", 8>>, <<"k", 11>>>>>>>>,   \* 2047
    <<<<"out", 9, <<<<"b", 9>>, <<"k", 12>>>>>>>>,   \* 2048
    <<<<"out", 10, <<<<"b", 10>>, <<"k", 13>>>>>>>>,   \* 2049
    <<<<"out", 11, <<<<"b", 11>>, <<"k", 14>>>>>>>>,   \* 2050
    <<<<"out", 12, <<<<"b", 12>>, <<"k", 15>>>>>>>>,   \* 2051
    <<<<"out", 13, <<<<"b", 13>>, <<"k", 16>>, <<"t", 2>>>>>>>>,   \* 2052
    <<<<"out", 14, <<<<"b", 14>>, <<"k", 0>>, <<"t", 0>>>>>>>>,   \* 2053
    <<<<"out", 15, <<<<"b", 15>>, <<"k", 1>>, <<"n", 20>>>>>>>>   \* 2054
   >>
  >>

(* func (tf *threefish1024) encrypt(input, output []uint64): output afterwards *)
encrypt1024(tf, input, output) ==
  Run(tf, encrypt1024Code, CIPHER_QWORDS_1024, input, output)

(* The statements of func (tf *threefish1024) decrypt(input, output []uint64),
   threefish.go lines 2057-2758, after its loads of b0.., k0.., t0..: one tuple per
   source line, its line number at the end, the lines grouped by key-injection cycle. *)
decrypt1024Code ==
  <<
   <<
    <<<<"-=", 0, <<<<"k", 3>>>>>>>>,   \* 2085
    <<<<"-=", 1, <<<<"k", 4>>>>>>>>,   \* 2086
    <<<<"-=", 2, <<<<"k", 5>>>>>>>>,   \* 2087
    <<<<"-=", 3, <<<<"k", 6>>>>>>>>,   \* 2088
    <<<<"-=", 4, <<<<"k", 7>>>>>>>>,   \* 2089
    <<<<"-=", 5, <<<<"k", 8>>>>>>>>,   \* 2090
    <<<<"-=", 6, <<<<"k", 9>>>>>>>>,   \* 2091
    <<<<"-=", 7, <<<<"k", 10>>>>>>>>,   \* 2092
    <<<<"-=", 8, <<<<"k", 11>>>>>>>>,   \* 2093
    <<<<"-=", 9, <<<<"k", 12>>>>>>>>,   \* 2094
    <<<<"-=", 10, <<<<"k", 13>>>>>>>>,   \* 2095
    <<<<"-=", 11, <<<<"k", 14>>>>>>>>,   \* 2096
    <<<<"-=", 12, <<<<"k", 15>>>>>>>>,   \* 2097
    <<<<"-=", 13, <<<<"k", 16>>, <<"t", 2>>>>>>>>,   \* 2098
    <<<<"-=", 14, <<<<"k", 0>>, <<"t", 0>>>>>>>>,   \* 2099
    <<<<"-=", 15, <<<<"k", 1>>, <<"n", 20>>>>>>>>   \* 2100
   >>,
   <<
    <<<<"^", 7, 12>>, <<"rotr", 7, 20>>, <<"-=", 12, <<<<"b", 7>>>>>>>>,   \* 2101
    <<<<"^", 3, 10>>, <<"rotr", 3, 37>>, <<"-=", 10, <<<<"b", 3>>>>>>>>,   \* 2102
    <<<<"^", 5, 8>>, <<"rotr", 5, 31>>, <<"-=", 8, <<<<"b", 5>>>>>>>>,   \* 2103
    <<<<"^", 1, 14>>, <<"rotr", 1, 23>>, <<"-=", 14, <<<<"b", 1>>>>>>>>,   \* 2104
    <<<<"^", 9, 4>>, <<"rotr", 9, 52>>, <<"-=", 4, <<<<"b", 9>>>>>>>>,   \* 2105
    <<<<"^", 13, 6>>, <<"rotr", 13, 35>>, <<"-=", 6, <<<<"b", 13>>>>>>>>,   \* 2106
    <<<<"^", 11, 2>>, <<"rotr", 11, 48>>, <<"-=", 2, <<<<"b", 11>>>>>>>>,   \* 2107
    <<<<"^", 15, 0>>, <<"rotr", 15, 9>>, <<"-=", 0, <<<<"b", 15>>>>>>>>,   \* 2108
    <<<<"^", 9, 10>>, <<"rotr", 9, 25>>, <<"-=", 10, <<<<"b", 9>>>>>>>>,   \* 2109
    <<<<"^", 11, 8>>, <<"rotr", 11, 44>>, <<"-=", 8, <<<<"b", 11>>>>>>>>,   \* 2110
    <<<<"^", 13, 14>>, <<"rotr", 13, 42>>, <<"-=", 14, <<<<"b", 13>>>>>>>>,   \* 2111
    <<<<"^", 15, 12>>, <<"rotr", 15, 19>>, <<"-=", 12, <<<<"b", 15>>>>>>>>,   \* 2112
    <<<<"^", 1, 6>>, <<"rotr", 1, 46>>, <<"-=", 6, <<<<"b", 1>>>>>>>>,   \* 2113
    <<<<"^", 3, 4>>, <<"rotr", 3, 47>>, <<"-=", 4, <<<<"b", 3>>>>>>>>,   \* 2114
    <<<<"^", 5, 2>>, <<"rotr", 5, 44>>, <<"-=", 2, <<<<"b", 5>>>>>>>>,   \* 2115
    <<<<"^", 7, 0>>, <<"rotr", 7, 31>>, <<"-=", 0, <<<<"b", 7>>>>>>>>,   \* 2116
    <<<<"^", 1, 8>>, <<"rotr", 1, 41>>, <<"-=", 8, <<<<"b", 1>>>>>>>>,   \* 2117
    <<<<"^", 5, 14>>, <<"rotr", 5, 42>>, <<"-=", 14, <<<<"b", 5>>>>>>>>,   \* 2118
    <<<<"^", 3, 12>>, <<"rotr", 3, 53>>, <<"-=", 12, <<<<"b", 3>>>>>>>>,   \* 2119
    <<<<"^", 7, 10>>, <<"rotr", 7, 4>>, <<"-=", 10, <<<<"b", 7>>>>>>>>,   \* 2120
    <<<<"^", 15, 4>>, <<"rotr", 15, 51>>, <<"-=", 4, <<<<"b", 15>>>>>>>>,   \* 2121
    <<<<"^", 11, 6>>, <<"rotr", 11, 56>>, <<"-=", 6, <<<<"b", 11>>>>>>>>,   \* 2122
    <<<<"^", 13, 2>>, <<"rotr", 13, 34>>, <<"-=", 2, <<<<"b", 13>>>>>>>>,   \* 2123
    <<<<"^", 9, 0>>, <<"rotr", 9, 16>>, <<"-=", 0, <<<<"b", 9>>>>>>>>,   \* 2124
    <<<<"^", 15, 14>>, <<"rotr", 15, 30>>, <<"-=", 14, <<<<"b", 15>>, <<"k", 16>>, <<"t", 2>>>>>>, <<"-=", 15, <<<<"k", 0>>, <<"n", 19>>>>>>>>,   \* 2125
    <<<<"^", 13, 12>>, <<"rotr", 13, 44>>, <<"-=", 12, <<<<"b", 13>>, <<"k", 14>>>>>>, <<"-=", 13, <<<<"k", 15>>, <<"t", 1>>>>>>>>,   \* 2126
    <<<<"^", 11, 10>>, <<"rotr", 11, 47>>, <<"-=", 10, <<<<"b", 11>>, <<"k", 12>>>>>>, <<"-=", 11, <<<<"k", 13>>>>>>>>,   \* 2127
    <<<<"^", 9, 8>>, <<"rotr", 9, 12>>, <<"-=", 8, <<<<"b", 9>>, <<"k", 10>>>>>>, <<"-=", 9, <<<<"k", 11>>>>>>>>,   \* 2128
    <<<<"^", 7, 6>>, <<"rotr", 7, 31>>, <<"-=", 6, <<<<"b", 7>>, <<"k", 8>>>>>>, <<"-=", 7, <<<<"k", 9>>>>>>>>,   \* 2129
    <<<<"^", 5, 4>>, <<"rotr", 5, 37>>, <<"-=", 4, <<<<"b", 5>>, <<"k", 6>>>>>>, <<"-=", 5, <<<<"k", 7>>>>>>>>,   \* 2130
    <<<<"^", 3, 2>>, <<"rotr", 3, 9>>, <<"-=", 2, <<<<"b", 3>>, <<"k", 4>>>>>>, <<"-=", 3, <<<<"k", 5>>>>>>>>,   \* 2131
    <<<<"^", 1, 0>>, <<"rotr", 1, 41>>, <<"-=", 0, <<<<"b", 1>>, <<"k", 2>>>>>>, <<"-=", 1, <<<<"k", 3>>>>>>>>   \* 2132
   >>,
   <<
    <<<<"^", 7, 12>>, <<"rotr", 7, 25>>, <<"-=", 12, <<<<"b", 7>>>>>>>>,   \* 2133
    <<<<"^", 3, 10>>, <<"rotr", 3, 16>>, <<"-=", 10, <<<<"b", 3>>>>>>>>,   \* 2134
    <<<<"^", 5, 8>>, <<"rotr", 5, 28>>, <<"-=", 8, <<<<"b", 5>>>>>>>>,   \* 2135
    <<<<"^", 1, 14>>, <<"rotr", 1, 47>>, <<"-=", 14, <<<<"b", 1>>>>>>>>,   \* 2136
    <<<<"^", 9, 4>>, <<"rotr", 9, 41>>, <<"-=", 4, <<<<"b", 9>>>>>>>>,   \* 2137
    <<<<"^", 13, 6>>, <<"rotr", 13, 48>>, <<"-=", 6, <<<<"b", 13>>>>>>>>,   \* 2138
    <<<<"^", 11, 2>>, <<"rotr", 11, 20>>, <<"-=", 2, <<<<"b", 11>>>>>>>>,   \* 2139
    <<<<"^", 15, 0>>, <<"rotr", 15, 5>>, <<"-=", 0, <<<<"b", 15>>>>>>>>,   \* 2140
    <<<<"^", 9, 10>>, <<"rotr", 9, 17>>, <<"-=", 10, <<<<"b", 9>>>>>>>>,   \* 2141
    <<<<"^", 11, 8>>, <<"rotr", 11, 59>>, <<"-=", 8, <<<<"b", 11>>>>>>>>,   \* 2142
    <<<<"^", 13, 14>>, <<"rotr", 13, 41>>, <<"-=", 14, <<<<"b", 13>>>>>>>>,   \* 2143
    <<<<"^", 15, 12>>, <<"rotr", 15, 34>>, <<"-=", 12, <<<<"b", 15>>>>>>>>,   \* 2144
    <<<<"^", 1, 6>>, <<"rotr", 1, 13>>, <<"-=", 6, <<<<"b", 1>>>>>>>>,   \* 2145
    <<<<"^", 3, 4>>, <<"rotr", 3, 51>>, <<"-=", 4, <<<<"b", 3>>>>>>>>,   \* 2146
    <<<<"^", 5, 2>>, <<"rotr", 5, 4>>, <<"-=", 2, <<<<"b", 5>>>>>>>>,   \* 2147
    <<<<"^", 7, 0>>, <<"rotr", 7, 33>>, <<"-=", 0, <<<<"b", 7>>>>>>>>,   \* 2148
    <<<<"^", 1, 8>>, <<"rotr", 1, 52>>, <<"-=", 8, <<<<"b", 1>>>>>>>>,   \* 2149
    <<<<"^", 5, 14>>, <<"rotr", 5, 23>>, <<"-=", 14, <<<<"b", 5>>>>>>>>,   \* 2150
    <<<<"^", 3, 12>>, <<"rotr", 3, 18>>, <<"-=", 12, <<<<"b", 3>>>>>>>>,   \* 2151
    <<<<"^", 7, 10>>, <<"rotr", 7, 49>>, <<"-=", 10, <<<<"b", 7>>>>>>>>,   \* 2152
    <<<<"^", 15, 4>>, <<"rotr", 15, 55>>, <<"-=", 4, <<<<"b", 15>>>>>>>>,   \* 2153
    <<<<"^", 11, 6>>, <<"rotr", 11, 10>>, <<"-=", 6, <<<<"b", 11>>>>>>>>,   \* 2154
    <<<<"^", 13, 2>>, <<"rotr", 13, 19>>, <<"-=", 2, <<<<"b", 13>>>>>>>>,   \* 2155
    <<<<"^", 9, 0>>, <<"rotr", 9, 38>>, <<"-=", 0, <<<<"b", 9>>>>>>>>,   \* 2156
    <<<<"^", 15, 14>>, <<"rotr", 15, 37>>, <<"-=", 14, <<<<"b", 15>>, <<"k", 15>>, <<"t", 1>>>>>>, <<"-=", 15, <<<<"k", 16>>, <<"n", 18>>>>>>>>,   \* 2157
    <<<<"^", 13, 12>>, <<"rotr", 13, 22>>, <<"-=", 12, <<<<"b", 13>>, <<"k", 13>>>>>>, <<"-=", 13, <<<<"k", 14>>, <<"t", 0>>>>>>>>,   \* 2158
    <<<<"^", 11, 10>>, <<"rotr", 11, 17>>, <<"-=", 10, <<<<"b", 11>>, <<"k", 11>>>>>>, <<"-=", 11, <<<<"k", 12>>>>>>>>,   \* 2159
    <<<<"^", 9, 8>>, <<"rotr", 9, 8>>, <<"-=", 8, <<<<"b", 9>>, <<"k", 9>>>>>>, <<"-=", 9, <<<<"k", 10>>>>>>>>,   \* 2160
    <<<<"^", 7, 6>>, <<"rotr", 7, 47>>, <<"-=", 6, <<<<"b", 7>>, <<"k", 7>>>>>>, <<"-=", 7, <<<<"k", 8>>>>>>>>,   \* 2161
    <<<<"^", 5, 4>>, <<"rotr", 5, 8>>, <<"-=", 4, <<<<"b", 5>>, <<"k", 5>>>>>>, <<"-=", 5, <<<<"k", 6>>>>>>>>,   \* 2162
    <<<<"^", 3, 2>>, <<"rotr", 3, 13>>, <<"-=", 2, <<<<"b", 3>>, <<"k", 3>>>>>>, <<"-=", 3, <<<<"k", 4>>>>>>>>,   \* 2163
    <<<<"^", 1, 0>>, <<"rotr", 1, 24>>, <<"-=", 0, <<<<"b", 1>>, <<"k", 1>>>>>>, <<"-=", 1, <<<<"k", 2>>>>>>>>   \* 2164
   >>,
   <<
    <<<<"^", 7, 12>>, <<"rotr", 7, 20>>, <<"-=", 12, <<<<"b", 7>>>>>>>>,   \* 2165
    <<<<"^", 3, 10>>, <<"rotr", 3, 37>>, <<"-=", 10, <<<<"b", 3>>>>>>>>,   \* 2166
    <<<<"^", 5, 8>>, <<"rotr", 5, 31>>, <<"-=", 8, <<<<"b", 5>>>>>>>>,   \* 2167
    <<<<"^", 1, 14>>, <<"rotr", 1, 23>>, <<"-=", 14, <<<<"b", 1>>>>>>>>,   \* 2168
    <<<<"^", 9, 4>>, <<"rotr", 9, 52>>, <<"-=", 4, <<<<"b", 9>>>>>>>>,   \* 2169
    <<<<"^", 13, 6>>, <<"rotr", 13, 35>>, <<"-=", 6, <<<<"b", 13>>>>>>>>,   \* 2170
    <<<<"^", 11, 2>>, <<"rotr", 11, 48>>, <<"-=", 2, <<<<"b", 11>>>>>>>>,   \* 2171
    <<<<"^", 15, 0>>, <<"rotr", 15, 9>>, <<"-=", 0, <<<<"b", 15>>>>>>>>,   \* 2172
    <<<<"^", 9, 10>>, <<"rotr", 9, 25>>, <<"-=", 10, <<<<"b", 9>>>>>>>>,   \* 2173
    <<<<"^", 11, 8>>, <<"rotr", 11, 44>>, <<"-=", 8, <<<<"b", 11>>>>>>>>,   \* 2174
    <<<<"^", 13, 14>>, <<"rotr", 13, 42>>, <<"-=", 14, <<<<"b", 13>>>>>>>>,   \* 2175
    <<<<"^", 15, 12>>, <<"rotr", 15, 19>>, <<"-=", 12, <<<<"b", 15>>>>>>>>,   \* 2176
    <<<<"^", 1, 6>>, <<"rotr", 1, 46>>, <<"-=", 6, <<<<"b", 1>>>>>>>>,   \* 2177
    <<<<"^", 3, 4>>, <<"rotr", 3, 47>>, <<"-=", 4, <<<<"b", 3>>>>>>>>,   \* 2178
    <<<<"^", 5, 2>>, <<"rotr", 5, 44>>, <<"-=", 2, <<<<"b", 5>>>>>>>>,   \* 2179
    <<<<"^", 7, 0>>, <<"rotr", 7, 31>>, <<"-=", 0, <<<<"b", 7>>>>>>>>,   \* 2180
    <<<<"^", 1, 8>>, <<"rotr", 1, 41>>, <<"-=", 8, <<<<"b", 1>>>>>>>>,   \* 2181
    <<<<"^", 5, 14>>, <<"rotr", 5, 42>>, <<"-=", 14, <<<<"b", 5>>>>>>>>,   \* 2182
    <<<<"^", 3, 12>>, <<"rotr", 3, 53>>, <<"-=", 12, <<<<"b", 3>>>>>>>>,   \* 2183
    <<<<"^", 7, 10>>, <<"rotr", 7, 4>>, <<"-=", 10, <<<<"b", 7>>>>>>>>,   \* 2184
    <<<<"^", 15, 4>>, <<"rotr", 15, 51>>, <<"-=", 4, <<<<"b", 15>>>>>>>>,   \* 2185
    <<<<"^", 11, 6>>, <<"rotr", 11, 56>>, <<"-=", 6, <<<<"b", 11>>>>>>>>,   \* 2186
    <<<<"^", 13, 2>>, <<"rotr", 13, 34>>, <<"-=", 2, <<<<"b", 13>>>>>>>>,   \* 2187
    <<<<"^", 9, 0>>, <<"rotr", 9, 16>>, <<"-=", 0, <<<<"b", 9>>>>>>>>,   \* 2188
    <<<<"^", 15, 14>>, <<"rotr", 15, 30>>, <<"-=", 14, <<<<"b", 15>>, <<"k", 14>>, <<"t", 0>>>>>>, <<"-=", 15, <<<<"k", 15>>, <<"n", 17>>>>>>>>,   \* 2189
    <<<<"^", 13, 12>>, <<"rotr", 13, 44>>, <<"-=", 12, <<<<"b", 13>>, <<"k", 12>>>>>>, <<"-=", 13, <<<<"k", 13>>, <<"t", 2>>>>>>>>,   \* 2190
    <<<<"^", 11, 10>>, <<"rotr", 11, 47>>, <<"-=", 10, <<<<"b", 11>>, <<"k", 10>>>>>>, <<"-=", 11, <<<<"k", 11>>>>>>>>,   \* 2191
    <<<<"^", 9, 8>>, <<"rotr", 9, 12>>, <<"-=", 8, <<<<"b", 9>>, <<"k", 8>>>>>>, <<"-=", 9, <<<<"k", 9>>>>>>>>,   \* 2192
    <<<<"^", 7, 6>>, <<"rotr", 7, 31>>, <<"-=", 6, <<<<"b", 7>>, <<"k", 6>>>>>>, <<"-=", 7, <<<<"k", 7>>>>>>>>,   \* 2193
    <<<<"^", 5, 4>>, <<"rotr", 5, 37>>, <<"-=", 4, <<<<"b", 5>>, <<"k", 4>>>>>>, <<"-=", 5, <<<<"k", 5>>>>>>>>,   \* 2194
    <<<<"^", 3, 2>>, <<"rotr", 3, 9>>, <<"-=", 2, <<<<"b", 3>>, <<"k", 2>>>>>>, <<"-=", 3, <<<<"k", 3>>>>>>>>,   \* 2195
    <<<<"^", 1, 0>>, <<"rotr", 1, 41>>, <<"-=", 0, <<<<"b", 1>>, <<"k", 0>>>>>>, <<"-=", 1, <<<<"k", 1>>>>>>>>   \* 2196
   >>,
   <<
    <<<<"^", 7, 12>>, <<"rotr", 7, 25>>, <<"-=", 12, <<<<"b", 7>>>>>>>>,   \* 2197
    <<<<"^", 3, 10>>, <<"rotr", 3, 16>>, <<"-=", 10, <<<<"b", 3>>>>>>>>,   \* 2198
    <<<<"^", 5, 8>>, <<"rotr", 5, 28>>, <<"-=", 8, <<<<"b", 5>>>>>>>>,   \* 2199
    <<<<"^", 1, 14>>, <<"rotr", 1, 47>>, <<"-=", 14, <<<<"b", 1>>>>>>>>,   \* 2200
    <<<<"^", 9, 4>>, <<"rotr", 9, 41>>, <<"-=", 4, <<<<"b", 9>>>>>>>>,   \* 2201
    <<<<"^", 13, 6>>, <<"rotr", 13, 48>>, <<"-=", 6, <<<<"b", 13>>>>>>>>,   \* 2202
    <<<<"^", 11, 2>>, <<"rotr", 11, 20>>, <<"-=", 2, <<<<"b", 11>>>>>>>>,   \* 2203
    <<<<"^", 15, 0>>, <<"rotr", 15, 5>>, <<"-=", 0, <<<<"b", 15>>>>>>>>,   \* 2204
    <<<<"^", 9, 10>>, <<"rotr", 9, 17>>, <<"-=", 10, <<<<"b", 9>>>>>>>>,   \* 2205
    <<<<"^", 11, 8>>, <<"rotr", 11, 59>>, <<"-=", 8, <<<<"b", 11>>>>>>>>,   \* 2206
    <<<<"^", 13, 14>>, <<"rotr", 13, 41>>, <<"-=", 14, <<<<"b", 13>>>>>>>>,   \* 2207
    <<<<"^", 15, 12>>, <<"rotr", 15, 34>>, <<"-=", 12, <<<<"b", 15>>>>>>>>,   \* 2208
    <<<<"^", 1, 6>>, <<"rotr", 1, 13>>, <<"-=", 6, <<<<"b", 1>>>>>>>>,   \* 2209
    <<<<"^", 3, 4>>, <<"rotr", 3, 51>>, <<"-=", 4, <<<<"b", 3>>>>>>>>,   \* 2210
    <<<<"^", 5, 2>>, <<"rotr", 5, 4>>, <<"-=", 2, <<<<"b", 5>>>>>>>>,   \* 2211
    <<<<"^", 7, 0>>, <<"rotr", 7, 33>>, <<"-=", 0, <<<<"b", 7>>>>>>>>,   \* 2212
    <<<<"^", 1, 8>>, <<"rotr", 1, 52>>, <<"-=", 8, <<<<"b", 1>>>>>>>>,   \* 2213
    <<<<"^", 5, 14>>, <<"rotr", 5, 23>>, <<"-=", 14, <<<<"b", 5>>>>>>>>,   \* 2214
    <<<<"^", 3, 12>>, <<"rotr", 3, 18>>, <<"-=", 12, <<<<"b", 3>>>>>>>>,   \* 2215
    <<<<"^", 7, 10>>, <<"rotr", 7, 49>>, <<"-=", 10, <<<<"b", 7>>>>>>>>,   \* 2216
    <<<<"^", 15, 4>>, <<"rotr", 15, 55>>, <<"-=", 4, <<<<"b", 15>>>>>>>>,   \* 2217
    <<<<"^", 11, 6>>, <<"rotr", 11, 10>>, <<"-=", 6, <<<<"b", 11>>>>>>>>,   \* 2218
    <<<<"^", 13, 2>>, <<"rotr", 13, 19>>, <<"-=", 2, <<<<"b", 13>>>>>>>>,   \* 2219
    <<<<"^", 9, 0>>, <<"rotr", 9, 38>>, <<"-=", 0, <<<<"b", 9>>>>>>>>,   \* 2220
    <<<<"^", 15, 14>>, <<"rotr", 15, 37>>, <<"-=", 14, <<<<"b", 15>>, <<"k", 13>>, <<"t", 2>>>>>>, <<"-=", 15, <<<<"k", 14>>, <<"n", 16>>>>>>>>,   \* 2221
    <<<<"^", 13, 12>>, <<"rotr", 13, 22>>, <<"-=", 12, <<<<"b", 13>>, <<"k", 11>>>>>>, <<"-=", 13, <<<<"k", 12>>, <<"t", 1>>>>>>>>,   \* 2222
    <<<<"^", 11, 10>>, <<"rotr", 11, 17>>, <<"-=", 10, <<<<"b", 11>>, <<"k", 9>>>>>>, <<"-=", 11, <<<<"k", 10>>>>>>>>,   \* 2223
    <<<<"^", 9, 8>>, <<"rotr", 9, 8>>, <<"-=", 8, <<<<"b", 9>>, <<"k", 7>>>>>>, <<"-=", 9, <<<<"k", 8>>>>>>>>,   \* 2224
    <<<<"^", 7, 6>>, <<"rotr", 7, 47>>, <<"-=", 6, <<<<"b", 7>>, <<"k", 5>>>>>>, <<"-=", 7, <<<<"k", 6>>>>>>>>,   \* 2225
    <<<<"^", 5, 4>>, <<"rotr", 5, 8>>, <<"-=", 4, <<<<"b", 5>>, <<"k", 3>>>>>>, <<"-=", 5, <<<<"k", 4>>>>>>>>,   \* 2226
    <<<<"^", 3, 2>>, <<"rotr", 3, 13>>, <<"-=", 2, <<<<"b", 3>>, <<"k", 1>>>>>>, <<"-=", 3, <<<<"k", 2>>>>>>>>,   \* 2227
    <<<<"^", 1, 0>>, <<"rotr", 1, 24>>, <<"-=", 0, <<<<"b", 1>>, <<"k", 16>>>>>>, <<"-=", 1, <<<<"k", 0>>>>>>>>   \* 2228
   >>,
   <<
    <<<<"^", 7, 12>>, <<"rotr", 7, 20>>, <<"-=", 12, <<<<"b", 7>>>>>>>>,   \* 2229
    <<<<"^", 3, 10>>, <<"rotr", 3, 37>>, <<"-=", 10, <<<<"b", 3>>>>>>>>,   \* 2230
    <<<<"^", 5, 8>>, <<"rotr", 5, 31>>, <<"-=", 8, <<<<"b", 5>>>>>>>>,   \* 2231
    <<<<"^", 1, 14>>, <<"rotr", 1, 23>>, <<"-=", 14, <<<<"b", 1>>>>>>>>,   \* 2232
    <<<<"^", 9, 4>>, <<"rotr", 9, 52>>, <<"-=", 4, <<<<"b", 9>>>>>>>>,   \* 2233
    <<<<"^", 13, 6>>, <<"rotr", 13, 35>>, <<"-=", 6, <<<<"b", 13>>>>>>>>,   \* 2234
    <<<<"^", 11, 2>>, <<"rotr", 11, 48>>, <<"-=", 2, <<<<"b", 11>>>>>>>>,   \* 2235
    <<<<"^", 15, 0>>, <<"rotr", 15, 9>>, <<"-=", 0, <<<<"b", 15>>>>>>>>,   \* 2236
    <<<<"^", 9, 10>>, <<"rotr", 9, 25>>, <<"-=", 10, <<<<"b", 9>>>>>>>>,   \* 2237
    <<<<"^", 11, 8>>, <<"rotr", 11, 44>>, <<"-=", 8, <<<<"b", 11>>>>>>>>,   \* 2238
    <<<<"^", 13, 14>>, <<"rotr", 13, 42>>, <<"-=", 14, <<<<"b", 13>>>>>>>>,   \* 2239
    <<<<"^", 15, 12>>, <<"rotr", 15, 19>>, <<"-=", 12, <<<<"b", 15>>>>>>>>,   \* 2240
    <<<<"^", 1, 6>>, <<"rotr", 1, 46>>, <<"-=", 6, <<<<"b", 1>>>>>>>>,   \* 2241
    <<<<"^", 3, 4>>, <<"rotr", 3, 47>>, <<"-=", 4, <<<<"b", 3>>>>>>>>,   \* 2242
    <<<<"^", 5, 2>>, <<"rotr", 5, 44>>, <<"-=", 2, <<<<"b", 5>>>>>>>>,   \* 2243
    <<<<"^", 7, 0>>, <<"rotr", 7, 31>>, <<"-=", 0, <<<<"b", 7>>>>>>>>,   \* 2244
    <<<<"^", 1, 8>>, <<"rotr", 1, 41>>, <<"-=", 8, <<<<"b", 1>>>>>>>>,   \* 2245
    <<<<"^", 5, 14>>, <<"rotr", 5, 42>>, <<"-=", 14, <<<<"b", 5>>>>>>>>,   \* 2246
    <<<<"^", 3, 12>>, <<"rotr", 3, 53>>, <<"-=", 12, <<<<"b", 3>>>>>>>>,   \* 2247
    <<<<"^", 7, 10>>, <<"rotr", 7, 4>>, <<"-=", 10, <<<<"b", 7>>>>>>>>,   \* 2248
    <<<<"^", 15, 4>>, <<"rotr", 15, 51>>, <<"-=", 4, <<<<"b", 15>>>>>>>>,   \* 2249
    <<<<"^", 11, 6>>, <<"rotr", 11, 56>>, <<"-=", 6, <<<<"b", 11>>>>>>>>,   \* 2250
    <<<<"^", 13, 2>>, <<"rotr", 13, 34>>, <<"-=", 2, <<<<"b", 13>>>>>>>>,   \* 2251
    <<<<"^", 9, 0>>, <<"rotr", 9, 16>>, <<"-=", 0, <<<<"b", 9>>>>>>>>,   \* 2252
    <<<<"^", 15, 14>>, <<"rotr", 15, 30>>, <<"-=", 14, <<<<"b", 15>>, <<"k", 12>>, <<"t", 1>>>>>>, <<"-=", 15, <<<<"k", 13>>, <<"n", 15>>>>>>>>,   \* 2253
    <<<<"^", 13, 12>>, <<"rotr", 13, 44>>, <<"-=", 12, <<<<"b", 13>>, <<"k", 10>>>>>>, <<"-=", 13, <<<<"k", 11>>, <<"t", 0>>>>>>>>,   \* 2254
    <<<<"^", 11, 10>>, <<"rotr", 11, 47>>, <<"-=", 10, <<<<"b", 11>>, <<"k", 8>>>>>>, <<"-=", 11, <<<<"k", 9>>>>>>>>,   \* 2255
    <<<<"^", 9, 8>>, <<"rotr", 9, 12>>, <<"-=", 8, <<<<"b", 9>>, <<"k", 6>>>>>>, <<"-=", 9, <<<<"k", 7>>>>>>>>,   \* 2256
    <<<<"^", 7, 6>>, <<"rotr", 7, 31>>, <<"-=", 6, <<<<"b", 7>>, <<"k", 4>>>>>>, <<"-=", 7, <<<<"k", 5>>>>>>>>,   \* 2257
    <<<<"^", 5, 4>>, <<"rotr", 5, 37>>, <<"-=", 4, <<<<"b", 5>>, <<"k", 2>>>>>>, <<"-=", 5, <<<<"k", 3>>>>>>>>,   \* 2258
    <<<<"^", 3, 2>>, <<"rotr", 3, 9>>, <<"-=", 2, <<<<"b", 3>>, <<"k", 0>>>>>>, <<"-=", 3, <<<<"k", 1>>>>>>>>,   \* 2259
    <<<<"^", 1, 0>>, <<"rotr", 1, 41>>, <<"-=", 0, <<<<"b", 1>>, <<"k", 15>>>>>>, <<"-=", 1, <<<<"k", 16>>>>>>>>   \* 2260
   >>,
   <<
    <<<<"^", 7, 12>>, <<"rotr", 7, 25>>, <<"-=", 12, <<<<"b", 7>>>>>>>>,   \* 2261
    <<<<"^", 3, 10>>, <<"rotr", 3, 16>>, <<"-=", 10, <<<<"b", 3>>>>>>>>,   \* 2262
    <<<<"^", 5, 8>>, <<"rotr", 5, 28>>, <<"-=", 8, <<<<"b", 5>>>>>>>>,   \* 2263
    <<<<"^", 1, 14>>, <<"rotr", 1, 47>>, <<"-=", 14, <<<<"b", 1>>>>>>>>,   \* 2264
    <<<<"^", 9, 4>>, <<"rotr", 9, 41>>, <<"-=", 4, <<<<"b", 9>>>>>>>>,   \* 2265
    <<<<"^", 13, 6>>, <<"rotr", 13, 48>>, <<"-=", 6, <<<<"b", 13>>>>>>>>,   \* 2266
    <<<<"^", 11, 2>>, <<"rotr", 11, 20>>, <<"-=", 2, <<<<"b", 11>>>>>>>>,   \* 2267
    <<<<"^", 15, 0>>, <<"rotr", 15, 5>>, <<"-=", 0, <<<<"b", 15>>>>>>>>,   \* 2268
    <<<<"^", 9, 10>>, <<"rotr", 9, 17>>, <<"-=", 10, <<<<"b", 9>>>>>>>>,   \* 2269
    <<<<"^", 11, 8>>, <<"rotr", 11, 59>>, <<"-=", 8, <<<<"b", 11>>>>>>>>,   \* 2270
    <<<<"^", 13, 14>>, <<"rotr", 13, 41>>, <<"-=", 14, <<<<"b", 13>>>>>>>>,   \* 2271
    <<<<"^", 15, 12>>, <<"rotr", 15, 34>>, <<"-=", 12, <<<<"b", 15>>>>>>>>,   \* 2272
    <<<<"^", 1, 6>>, <<"rotr", 1, 13>>, <<"-=", 6, <<<<"b", 1>>>>>>>>,   \* 2273
    <<<<"^", 3, 4>>, <<"rotr", 3, 51>>, <<"-=", 4, <<<<"b", 3>>>>>>>>,   \* 2274
    <<<<"^", 5, 2>>, <<"rotr", 5, 4>>, <<"-=", 2, <<<<"b", 5>>>>>>>>,   \* 2275
    <<<<"^", 7, 0>>, <<"rotr", 7, 33>>, <<"-=", 0, <<<<"b", 7>>>>>>>>,   \* 2276
    <<<<"^", 1, 8>>, <<"rotr", 1, 52>>, <<"-=", 8, <<<<"b", 1>>>>>>>>,   \* 2277
    <<<<"^", 5, 14>>, <<"rotr", 5, 23>>, <<"-=", 14, <<<<"b", 5>>>>>>>>,   \* 2278
    <<<<"^", 3, 12>>, <<"rotr", 3, 18>>, <<"-=", 12, <<<<"b", 3>>>>>>>>,   \* 2279
    <<<<"^", 7, 10>>, <<"rotr", 7, 49>>, <<"-=", 10, <<<<"b", 7>>>>>>>>,   \* 2280
    <<<<"^", 15, 4>>, <<"rotr", 15, 55>>, <<"-=", 4, <<<<"b", 15>>>>>>>>,   \* 2281
    <<<<"^", 11, 6>>, <<"rotr", 11, 10>>, <<"-=", 6, <<<<"b", 11>>>>>>>>,   \* 2282
    <<<<"^", 13, 2>>, <<"rotr", 13, 19>>, <<"-=", 2, <<<<"b", 13>>>>>>>>,   \* 2283
    <<<<"^", 9, 0>>, <<"rotr", 9, 38>>, <<"-=", 0, <<<<"b", 9>>>>>>>>,   \* 2284
    <<<<"^", 15, 14>>, <<"rotr", 15, 37>>, <<"-=", 14, <<<<"b", 15>>, <<"k", 11>>, <<"t", 0>>>>>>, <<"-=", 15, <<<<"k", 12>>, <<"n", 14>>>>>>>>,   \* 2285
    <<<<"^", 13, 12>>, <<"rotr", 13, 22>>, <<"-=", 12, <<<<"b", 13>>, <<"k", 9>>>>>>, <<"-=", 13, <<<<"k", 10>>, <<"t", 2>>>>>>>>,   \* 2286
    <<<<"^", 11, 10>>, <<"rotr", 11, 17>>, <<"-=", 10, <<<<"b", 11>>, <<"k", 7>>>>>>, <<"-=", 11, <<<<"k", 8>>>>>>>>,   \* 2287
    <<<<"^", 9, 8>>, <<"rotr", 9, 8>>, <<"-=", 8, <<<<"b", 9>>, <<"k", 5>>>>>>, <<"-=", 9, <<<<"k", 6>>>>>>>>,   \* 2288
    <<<<"^", 7, 6>>, <<"rotr", 7, 47>>, <<"-=", 6, <<<<"b", 7>>, <<"k", 3>>>>>>, <<"-=", 7, <<<<"k", 4>>>>>>>>,   \* 2289
    <<<<"^", 5, 4>>, <<"rotr", 5, 8>>, <<"-=", 4, <<<<"b", 5>>, <<"k", 1>>>>>>, <<"-=", 5, <<<<"k", 2>>>>>>>>,   \* 2290
    <<<<"^", 3, 2>>, <<"rotr", 3, 13>>, <<"-=", 2, <<<<"b", 3>>, <<"k", 16>>>>>>, <<"-=", 3, <<<<"k", 0>>>>>>>>,   \* 2291
    <<<<"^", 1, 0>>, <<"rotr", 1, 24>>, <<"-=", 0, <<<<"b", 1>>, <<"k", 14>>>>>>, <<"-=", 1, <<<<"k", 15>>>>>>>>   \* 2292
   >>,
   <<
    <<<<"^", 7, 12>>, <<"rotr", 7, 20>>, <<"-=", 12, <<<<"b", 7>>>>>>>>,   \* 2293
    <<<<"^", 3, 10>>, <<"rotr", 3, 37>>, <<"-=", 10, <<<<"b", 3>>>>>>>>,   \* 2294
    <<<<"^", 5, 8>>, <<"rotr", 5, 31>>, <<"-=", 8, <<<<"b", 5>>>>>>>>,   \* 2295
    <<<<"^", 1, 14>>, <<"rotr", 1, 23>>, <<"-=", 14, <<<<"b", 1>>>>>>>>,   \* 2296
    <<<<"^", 9, 4>>, <<"rotr", 9, 52>>, <<"-=", 4, <<<<"b", 9>>>>>>>>,   \* 2297
    <<<<"^", 13, 6>>, <<"rotr", 13, 35>>, <<"-=", 6, <<<<"b", 13>>>>>>>>,   \* 2298
    <<<<"^", 11, 2>>, <<"rotr", 11, 48>>, <<"-=", 2, <<<<"b", 11>>>>>>>>,   \* 2299
    <<<<"^", 15, 0>>, <<"rotr", 15, 9>>, <<"-=", 0, <<<<"b", 15>>>>>>>>,   \* 2300
    <<<<"^", 9, 10>>, <<"rotr", 9, 25>>, <<"-=", 10, <<<<"b", 9>>>>>>>>,   \* 2301
    <<<<"^", 11, 8>>, <<"rotr", 11, 44>>, <<"-=", 8, <<<<"b", 11>>>>>>>>,   \* 2302
    <<<<"^", 13, 14>>, <<"rotr", 13, 42>>, <<"-=", 14, <<<<"b", 13>>>>>>>>,   \* 2303
    <<<<"^", 15, 12>>, <<"rotr", 15, 19>>, <<"-=", 12, <<<<"b", 15>>>>>>>>,   \* 2304
    <<<<"^", 1, 6>>, <<"rotr", 1, 46>>, <<"-=", 6, <<<<"b", 1>>>>>>>>,   \* 2305
    <<<<"^", 3, 4>>, <<"rotr", 3, 47>>, <<"-=", 4, <<<<"b", 3>>>>>>>>,   \* 2306
    <<<<"^", 5, 2>>, <<"rotr", 5, 44>>, <<"-=", 2, <<<<"b", 5>>>>>>>>,   \* 2307
    <<<<"^", 7, 0>>, <<"rotr", 7, 31>>, <<"-=", 0, <<<<"b", 7>>>>>>>>,   \* 2308
    <<<<"^", 1, 8>>, <<"rotr", 1, 41>>, <<"-=", 8, <<<<"b", 1>>>>>>>>,   \* 2309
    <<<<"^", 5, 14>>, <<"rotr", 5, 42>>, <<"-=", 14, <<<<"b", 5>>>>>>>>,   \* 2310
    <<<<"^", 3, 12>>, <<"rotr", 3, 53>>, <<"-=", 12, <<<<"b", 3>>>>>>>>,   \* 2311
    <<<<"^", 7, 10>>, <<"rotr", 7, 4>>, <<"-=", 10, <<<<"b", 7>>>>>>>>,   \* 2312
    <<<<"^", 15, 4>>, <<"rotr", 15, 51>>, <<"-=", 4, <<<<"b", 15>>>>>>>>,   \* 2313
    <<<<"^", 11, 6>>, <<"rotr", 11, 56>>, <<"-=", 6, <<<<"b", 11>>>>>>>>,   \* 2314
    <<<<"^", 13, 2>>, <<"rotr", 13, 34>>, <<"-=", 2, <<<<"b", 13>>>>>>>>,   \* 2315
    <<<<"^", 9, 0>>, <<"rotr", 9, 16>>, <<"-=", 0, <<<<"b", 9>>>>>>>>,   \* 2316
    <<<<"^", 15, 14>>, <<"rotr", 15, 30>>, <<"-=", 14, <<<<"b", 15>>, <<"k", 10>>, <<"t", 2>>>>>>, <<"-=", 15, <<<<"k", 11>>, <<"n", 13>>>>>>>>,   \* 2317
    <<<<"^", 13, 12>>, <<"rotr", 13, 44>>, <<"-=", 12, <<<<"b", 13>>, <<"k", 8>>>>>>, <<"-=", 13, <<<<"k", 9>>, <<"t", 1>>>>>>>>,   \* 2318
    <<<<"^", 11, 10>>, <<"rotr", 11, 47>>, <<"-=", 10, <<<<"b", 11>>, <<"k", 6>>>>>>, <<"-=", 11, <<<<"k", 7>>>>>>>>,   \* 2319
    <<<<"^", 9, 8>>, <<"rotr", 9, 12>>, <<"-=", 8, <<<<"b", 9>>, <<"k", 4>>>>>>, <<"-=", 9, <<<<"k", 5>>>>>>>>,   \* 2320
    <<<<"^", 7, 6>>, <<"rotr", 7, 31>>, <<"-=", 6, <<<<"b", 7>>, <<"k", 2>>>>>>, <<"-=", 7, <<<<"k", 3>>>>>>>>,   \* 2321
    <<<<"^", 5, 4>>, <<"rotr", 5, 37>>, <<"-=", 4, <<<<"b", 5>>, <<"k", 0>>>>>>, <<"-=", 5, <<<<"k", 1>>>>>>>>,   \* 2322
    <<<<"^", 3, 2>>, <<"rotr", 3, 9>>, <<"-=", 2, <<<<"b", 3>>, <<"k", 15>>>>>>, <<"-=", 3, <<<<"k", 16>>>>>>>>,   \* 2323
    <<<<"^", 1, 0>>, <<"rotr", 1, 41>>, <<"-=", 0, <<<<"b", 1>>, <<"k", 13>>>>>>, <<"-=", 1, <<<<"k", 14>>>>>>>>   \* 2324
   >>,
   <<
    <<<<"^", 7, 12>>, <<"rotr", 7, 25>>, <<"-=", 12, <<<<"b", 7>>>>>>>>,   \* 2325
    <<<<"^", 3, 10>>, <<"rotr", 3, 16>>, <<"-=", 10, <<<<"b", 3>>>>>>>>,   \* 2326
    <<<<"^", 5, 8>>, <<"rotr", 5, 28>>, <<"-=", 8, <<<<"b", 5>>>>>>>>,   \* 2327
    <<<<"^", 1, 14>>, <<"rotr", 1, 47>>, <<"-=", 14, <<<<"b", 1>>>>>>>>,   \* 2328
    <<<<"^", 9, 4>>, <<"rotr", 9, 41>>, <<"-=", 4, <<<<"b", 9>>>>>>>>,   \* 2329
    <<<<"^", 13, 6>>, <<"rotr", 13, 48>>, <<"-=", 6, <<<<"b", 13>>>>>>>>,   \* 2330
    <<<<"^", 11, 2>>, <<"rotr", 11, 20>>, <<"-=", 2, <<<<"b", 11>>>>>>>>,   \* 2331
    <<<<"^", 15, 0>>, <<"rotr", 15, 5>>, <<"-=", 0, <<<<"b", 15>>>>>>>>,   \* 2332
    <<<<"^", 9, 10>>, <<"rotr", 9, 17>>, <<"-=", 10, <<<<"b", 9>>>>>>>>,   \* 2333
    <<<<"^", 11, 8>>, <<"rotr", 11, 59>>, <<"-=", 8, <<<<"b", 11>>>>>>>>,   \* 2334
    <<<<"^", 13, 14>>, <<"rotr", 13, 41>>, <<"-=", 14, <<<<"b", 13>>>>>>>>,   \* 2335
    <<<<"^", 15, 12>>, <<"rotr", 15, 34>>, <<"-=", 12, <<<<"b", 15>>>>>>>>,   \* 2336
    <<<<"^", 1, 6>>, <<"rotr", 1, 13>>, <<"-=", 6, <<<<"b", 1>>>>>>>>,   \* 2337
    <<<<"^", 3, 4>>, <<"rotr", 3, 51>>, <<"-=", 4, <<<<"b", 3>>>>>>>>,   \* 2338
    <<<<"^", 5, 2>>, <<"rotr", 5, 4>>, <<"-=", 2, <<<<"b", 5>>>>>>>>,   \* 2339
    <<<<"^", 7, 0>>, <<"rotr", 7, 33>>, <<"-=", 0, <<<<"b", 7>>>>>>>>,   \* 2340
    <<<<"^", 1, 8>>, <<"rotr", 1, 52>>, <<"-=", 8, <<<<"b", 1>>>>>>>>,   \* 2341
    <<<<"^", 5, 14>>, <<"rotr", 5, 23>>, <<"-=", 14, <<<<"b", 5>>>>>>>>,   \* 2342
    <<<<"^", 3, 12>>, <<"rotr", 3, 18>>, <<"-=", 12, <<<<"b", 3>>>>>>>>,   \* 2343
    <<<<"^", 7, 10>>, <<"rotr", 7, 49>>, <<"-=", 10, <<<<"b", 7>>>>>>>>,   \* 2344
    <<<<"^", 15, 4>>, <<"rotr", 15, 55>>, <<"-=", 4, <<<<"b", 15>>>>>>>>,   \* 2345
    <<<<"^", 11, 6>>, <<"rotr", 11, 10>>, <<"-=", 6, <<<<"b", 11>>>>>>>>,   \* 2346
    <<<<"^", 13, 2>>, <<"rotr", 13, 19>>, <<"-=", 2, <<<<"b", 13>>>>>>>>,   \* 2347
    <<<<"^", 9, 0>>, <<"rotr", 9, 38>>, <<"-=", 0, <<<<"b", 9>>>>>>>>,   \* 2348
    <<<<"^", 15, 14>>, <<"rotr", 15, 37>>, <<"-=", 14, <<<<"b", 15>>, <<"k", 9>>, <<"t", 1>>>>>>, <<"-=", 15, <<<<"k", 10>>, <<"n", 12>>>>>>>>,   \* 2349
    <<<<"^", 13, 12>>, <<"rotr", 13, 22>>, <<"-=", 12, <<<<"b", 13>>, <<"k", 7>>>>>>, <<"-=", 13, <<<<"k", 8>>, <<"t", 0>>>>>>>>,   \* 2350
    <<<<"^", 11, 10>>, <<"rotr", 11, 17>>, <<"-=", 10, <<<<"b", 11>>, <<"k", 5>>>>>>, <<"-=", 11, <<<<"k", 6>>>>>>>>,   \* 2351
    <<<<"^", 9, 8>>, <<"rotr", 9, 8>>, <<"-=", 8, <<<<"b", 9>>, <<"k", 3>>>>>>, <<"-=", 9, <<<<"k", 4>>>>>>>>,   \* 2352
    <<<<"^", 7, 6>>, <<"rotr", 7, 47>>, <<"-=", 6, <<<<"b", 7>>, <<"k", 1>>>>>>, <<"-=", 7, <<<<"k", 2>>>>>>>>,   \* 2353
    <<<<"^", 5, 4>>, <<"rotr", 5, 8>>, <<"-=", 4, <<<<"b", 5>>, <<"k", 16>>>>>>, <<"-=", 5, <<<<"k", 0>>>>>>>>,   \* 2354
    <<<<"^", 3, 2>>, <<"rotr", 3, 13>>, <<"-=", 2, <<<<"b", 3>>, <<"k", 14>>>>>>, <<"-=", 3, <<<<"k", 15>>>>>>>>,   \* 2355
    <<<<"^", 1, 0>>, <<"rotr", 1, 24>>, <<"-=", 0, <<<<"b", 1>>, <<"k", 12>>>>>>, <<"-=", 1, <<<<"k", 13>>>>>>>>   \* 2356
   >>,
   <<
    <<<<"^", 7, 12>>, <<"rotr", 7, 20>>, <<"-=", 12, <<<<"b", 7>>>>>>>>,   \* 2357
    <<<<"^", 3, 10>>, <<"rotr", 3, 37>>, <<"-=", 10, <<<<"b", 3>>>>>>>>,   \* 2358
    <<<<"^", 5, 8>>, <<"rotr", 5, 31>>, <<"-=", 8, <<<<"b", 5>>>>>>>>,   \* 2359
    <<<<"^", 1, 14>>, <<"rotr", 1, 23>>, <<"-=", 14, <<<<"b", 1>>>>>>>>,   \* 2360
    <<<<"^", 9, 4>>, <<"rotr", 9, 52>>, <<"-=", 4, <<<<"b", 9>>>>>>>>,   \* 2361
    <<<<"^", 13, 6>>, <<"rotr", 13, 35>>, <<"-=", 6, <<<<"b", 13>>>>>>>>,   \* 2362
    <<<<"^", 11, 2>>, <<"rotr", 11, 48>>, <<"-=", 2, <<<<"b", 11>>>>>>>>,   \* 2363
    <<<<"^", 15, 0>>, <<"rotr", 15, 9>>, <<"-=", 0, <<<<"b", 15>>>>>>>>,   \* 2364
    <<<<"^", 9, 10>>, <<"rotr", 9, 25>>, <<"-=", 10, <<<<"b", 9>>>>>>>>,   \* 2365
    <<<<"^", 11, 8>>, <<"rotr", 11, 44>>, <<"-=", 8, <<<<"b", 11>>>>>>>>,   \* 2366
    <<<<"^", 13, 14>>, <<"rotr", 13, 42>>, <<"-=", 14, <<<<"b", 13>>>>>>>>,   \* 2367
    <<<<"^", 15, 12>>, <<"rotr", 15, 19>>, <<"-=", 12, <<<<"b", 15>>>>>>>>,   \* 2368
    <<<<"^", 1, 6>>, <<"rotr", 1, 46>>, <<"-=", 6, <<<<"b", 1>>>>>>>>,   \* 2369
    <<<<"^", 3, 4>>, <<"rotr", 3, 47>>, <<"-=", 4, <<<<"b", 3>>>>>>>>,   \* 2370
    <<<<"^", 5, 2>>, <<"rotr", 5, 44>>, <<"-=", 2, <<<<"b", 5>>>>>>>>,   \* 2371
    <<<<"^", 7, 0>>, <<"rotr", 7, 31>>, <<"-=", 0, <<<<"b", 7>>>>>>>>,   \* 2372
    <<<<"^", 1, 8>>, <<"rotr", 1, 41>>, <<"-=", 8, <<<<"b", 1>>>>>>>>,   \* 2373
    <<<<"^", 5, 14>>, <<"rotr", 5, 42>>, <<"-=", 14, <<<<"b", 5>>>>>>>>,   \* 2374
    <<<<"^", 3, 12>>, <<"rotr", 3, 53>>, <<"-=", 12, <<<<"b", 3>>>>>>>>,   \* 2375
    <<<<"^", 7, 10>>, <<"rotr", 7, 4>>, <<"-=", 10, <<<<"b", 7>>>>>>>>,   \* 2376
    <<<<"^", 15, 4>>, <<"rotr", 15, 51>>, <<"-=", 4, <<<<"b", 15>>>>>>>>,   \* 2377
    <<<<"^", 11, 6>>, <<"rotr", 11, 56>>, <<"-=", 6, <<<<"b", 11>>>>>>>>,   \* 2378
    <<<<"^", 13, 2>>, <<"rotr", 13, 34>>, <<"-=", 2, <<<<"b", 13>>>>>>>>,   \* 2379
    <<<<"^", 9, 0>>, <<"rotr", 9, 16>>, <<"-=", 0, <<<<"b", 9>>>>>>>>,   \* 2380
    <<<<"^", 15, 14>>, <<"rotr", 15, 30>>, <<"-=", 14, <<<<"b", 15>>, <<"k", 8>>, <<"t", 0>>>>>>, <<"-=", 15, <<<<"k", 9>>, <<"n", 11>>>>>>>>,   \* 2381
    <<<<"^", 13, 12>>, <<"rotr", 13, 44>>, <<"-=", 12, <<<<"b", 13>>, <<"k", 6>>>>>>, <<"-=", 13, <<<<"k", 7>>, <<"t", 2>>>>>>>>,   \* 2382
    <<<<"^", 11, 10>>, <<"rotr", 11, 47>>, <<"-=", 10, <<<<"b", 11>>, <<"k", 4>>>>>>, <<"-=", 11, <<<<"k", 5>>>>>>>>,   \* 2383
    <<<<"^", 9, 8>>, <<"rotr", 9, 12>>, <<"-=", 8, <<<<"b", 9>>, <<"k", 2>>>>>>, <<"-=", 9, <<<<"k", 3>>>>>>>>,   \* 2384
    <<<<"^", 7, 6>>, <<"rotr", 7, 31>>, <<"-=", 6, <<<<"b", 7>>, <<"k", 0>>>>>>, <<"-=", 7, <<<<"k", 1>>>>>>>>,   \* 2385
    <<<<"^", 5, 4>>, <<"rotr", 5, 37>>, <<"-=", 4, <<<<"b", 5>>, <<"k", 15>>>>>>, <<"-=", 5, <<<<"k", 16>>>>>>>>,   \* 2386
    <<<<"^", 3, 2>>, <<"rotr", 3, 9>>, <<"-=", 2, <<<<"b", 3>>, <<"k", 13>>>>>>, <<"-=", 3, <<<<"k", 14>>>>>>>>,   \* 2387
    <<<<"^", 1, 0>>, <<"rotr", 1, 41>>, <<"-=", 0, <<<<"b", 1>>, <<"k", 11>>>>>>, <<"-=", 1, <<<<"k", 12>>>>>>>>   \* 2388
   >>,
   <<
    <<<<"^", 7, 12>>, <<"rotr", 7, 25>>, <<"-=", 12, <<<<"b", 7>>>>>>>>,   \* 2389
    <<<<"^", 3, 10>>, <<"rotr", 3, 16>>, <<"-=", 10, <<<<"b", 3>>>>>>>>,   \* 2390
    <<<<"^", 5, 8>>, <<"rotr", 5, 28>>, <<"-=", 8, <<<<"b", 5>>>>>>>>,   \* 2391
    <<<<"^", 1, 14>>, <<"rotr", 1, 47>>, <<"-=", 14, <<<<"b", 1>>>>>>>>,   \* 2392
    <<<<"^", 9, 4>>, <<"rotr", 9, 41>>, <<"-=", 4, <<<<"b", 9>>>>>>>>,   \* 2393
    <<<<"^", 13, 6>>, <<"rotr", 13, 48>>, <<"-=", 6, <<<<"b", 13>>>>>>>>,   \* 2394
    <<<<"^", 11, 2>>, <<"rotr", 11, 20>>, <<"-=", 2, <<<<"b", 11>>>>>>>>,   \* 2395
    <<<<"^", 15, 0>>, <<"rotr", 15, 5>>, <<"-=", 0, <<<<"b", 15>>>>>>>>,   \* 2396
    <<<<"^", 9, 10>>, <<"rotr", 9, 17>>, <<"-=", 10, <<<<"b", 9>>>>>>>>,   \* 2397
    <<<<"^", 11, 8>>, <<"rotr", 11, 59>>, <<"-=", 8, <<<<"b", 11>>>>>>>>,   \* 2398
    <<<<"^", 13, 14>>, <<"rotr", 13, 41>>, <<"-=", 14, <<<<"b", 13>>>>>>>>,   \* 2399
    <<<<"^", 15, 12>>, <<"rotr", 15, 34>>, <<"-=", 12, <<<<"b", 15>>>>>>>>,   \* 2400
    <<<<"^", 1, 6>>, <<"rotr", 1, 13>>, <<"-=", 6, <<<<"b", 1>>>>>>>>,   \* 2401
    <<<<"^", 3, 4>>, <<"rotr", 3, 51>>, <<"-=", 4, <<<<"b", 3>>>>>>>>,   \* 2402
    <<<<"^", 5, 2>>, <<"rotr", 5, 4>>, <<"-=", 2, <<<<"b", 5>>>>>>>>,   \* 2403
    <<<<"^", 7, 0>>, <<"rotr", 7, 33>>, <<"-=", 0, <<<<"b", 7>>>>>>>>,   \* 2404
    <<<<"^", 1, 8>>, <<"rotr", 1, 52>>, <<"-=", 8, <<<<"b", 1>>>>>>>>,   \* 2405
    <<<<"^", 5, 14>>, <<"rotr", 5, 23>>, <<"-=", 14, <<<<"b", 5>>>>>>>>,   \* 2406
    <<<<"^", 3, 12>>, <<"rotr", 3, 18>>, <<"-=", 12, <<<<"b", 3>>>>>>>>,   \* 2407
    <<<<"^", 7, 10>>, <<"rotr", 7, 49>>, <<"-=", 10, <<<<"b", 7>>>>>>>>,   \* 2408
    <<<<"^", 15, 4>>, <<"rotr", 15, 55>>, <<"-=", 4, <<<<"b", 15>>>>>>>>,   \* 2409
    <<<<"^", 11, 6>>, <<"rotr", 11, 10>>, <<"-=", 6, <<<<"b", 11>>>>>>>>,   \* 2410
    <<<<"^", 13, 2>>, <<"rotr", 13, 19>>, <<"-=", 2, <<<<"b", 13>>>>>>>>,   \* 2411
    <<<<"^", 9, 0>>, <<"rotr", 9, 38>>, <<"-=", 0, <<<<"b", 9>>>>>>>>,   \* 2412
    <<<<"^", 15, 14>>, <<"rotr", 15, 37>>, <<"-=", 14, <<<<"b", 15>>, <<"k", 7>>, <<"t", 2>>>>>>, <<"-=", 15, <<<<"k", 8>>, <<"n", 10>>>>>>>>,   \* 2413
    <<<<"^", 13, 12>>, <<"rotr", 13, 22>>, <<"-=", 12, <<<<"b", 13>>, <<"k", 5>>>>>>, <<"-=", 13, <<<<"k", 6>>, <<"t", 1>>>>>>>>,   \* 2414
    <<<<"^", 11, 10>>, <<"rotr", 11, 17>>, <<"-=", 10, <<<<"b", 11>>, <<"k", 3>>>>>>, <<"-=", 11, <<<<"k", 4>>>>>>>>,   \* 2415
    <<<<"^", 9, 8>>, <<"rotr", 9, 8>>, <<"-=", 8, <<<<"b", 9>>, <<"k", 1>>>>>>, <<"-=", 9, <<<<"k", 2>>>>>>>>,   \* 2416
    <<<<"^", 7, 6>>, <<"rotr", 7, 47>>, <<"-=", 6, <<<<"b", 7>>, <<"k", 16>>>>>>, <<"-=", 7, <<<<"k", 0>>>>>>>>,   \* 2417
    <<<<"^", 5, 4>>, <<"rotr", 5, 8>>, <<"-=", 4, <<<<"b", 5>>, <<"k", 14>>>>>>, <<"-=", 5, <<<<"k", 15>>>>>>>>,   \* 2418
    <<<<"^", 3, 2>>, <<"rotr", 3, 13>>, <<"-=", 2, <<<<"b", 3>>, <<"k", 12>>>>>>, <<"-=", 3, <<<<"k", 13>>>>>>>>,   \* 2419
    <<<<"^", 1, 0>>, <<"rotr", 1, 24>>, <<"-=", 0, <<<<"b", 1>>, <<"k", 10>>>>>>, <<"-=", 1, <<<<"k", 11>>>>>>>>   \* 2420
   >>,
   <<
    <<<<"^", 7, 12>>, <<"rotr", 7, 20>>, <<"-=", 12, <<<<"b", 7>>>>>>>>,   \* 2421
    <<<<"^", 3, 10>>, <<"rotr", 3, 37>>, <<"-=", 10, <<<<"b", 3>>>>>>>>,   \* 2422
    <<<<"^", 5, 8>>, <<"rotr", 5, 31>>, <<"-=", 8, <<<<"b", 5>>>>>>>>,   \* 2423
    <<<<"^", 1, 14>>, <<"rotr", 1, 23>>, <<"-=", 14, <<<<"b", 1>>>>>>>>,   \* 2424
    <<<<"^", 9, 4>>, <<"rotr", 9, 52>>, <<"-=", 4, <<<<"b", 9>>>>>>>>,   \* 2425
    <<<<"^", 13, 6>>, <<"rotr", 13, 35>>, <<"-=", 6, <<<<"b", 13>>>>>>>>,   \* 2426
    <<<<"^", 11, 2>>, <<"rotr", 11, 48>>, <<"-=", 2, <<<<"b", 11>>>>>>>>,   \* 2427
    <<<<"^", 15, 0>>, <<"rotr", 15, 9>>, <<"-=", 0, <<<<"b", 15>>>>>>>>,   \* 2428
    <<<<"^", 9, 10>>, <<"rotr", 9, 25>>, <<"-=", 10, <<<<"b", 9>>>>>>>>,   \* 2429
    <<<<"^", 11, 8>>, <<"rotr", 11, 44>>, <<"-=", 8, <<<<"b", 11>>>>>>>>,   \* 2430
    <<<<"^", 13, 14>>, <<"rotr", 13, 42>>, <<"-=", 14, <<<<"b", 13>>>>>>>>,   \* 2431
    <<<<"^", 15, 12>>, <<"rotr", 15, 19>>, <<"-=", 12, <<<<"b", 15>>>>>>>>,   \* 2432
    <<<<"^", 1, 6>>, <<"rotr", 1, 46>>, <<"-=", 6, <<<<"b", 1>>>>>>>>,   \* 2433
    <<<<"^", 3, 4>>, <<"rotr", 3, 47>>, <<"-=", 4, <<<<"b", 3>>>>>>>>,   \* 2434
    <<<<"^", 5, 2>>, <<"rotr", 5, 44>>, <<"-=", 2, <<<<"b", 5>>>>>>>>,   \* 2435
    <<<<"^", 7, 0>>, <<"rotr", 7, 31>>, <<"-=", 0, <<<<"b", 7>>>>>>>>,   \* 2436
    <<<<"^", 1, 8>>, <<"rotr", 1, 41>>, <<"-=", 8, <<<<"b", 1>>>>>>>>,   \* 2437
    <<<<"^", 5, 14>>, <<"rotr", 5, 42>>, <<"-=", 14, <<<<"b", 5>>>>>>>>,   \* 2438
    <<<<"^", 3, 12>>, <<"rotr", 3, 53>>, <<"-=", 12, <<<<"b", 3>>>>>>>>,   \* 2439
    <<<<"^", 7, 10>>, <<"rotr", 7, 4>>, <<"-=", 10, <<<<"b", 7>>>>>>>>,   \* 2440
    <<<<"^", 15, 4>>, <<"rotr", 15, 51>>, <<"-=", 4, <<<<"b", 15>>>>>>>>,   \* 2441
    <<<<"^", 11, 6>>, <<"rotr", 11, 56>>, <<"-=", 6, <<<<"b", 11>>>>>>>>,   \* 2442
    <<<<"^", 13, 2>>, <<"rotr", 13, 34>>, <<"-=", 2, <<<<"b", 13>>>>>>>>,   \* 2443
    <<<<"^", 9, 0>>, <<"rotr", 9, 16>>, <<"-=", 0, <<<<"b", 9>>>>>>>>,   \* 2444
    <<<<"^", 15, 14>>, <<"rotr", 15, 30>>, <<"-=", 14, <<<<"b", 15>>, <<"k", 6>>, <<"t", 1>>>>>>, <<"-=", 15, <<<<"k", 7>>, <<"n", 9>>>>>>>>,   \* 2445
    <<<<"^", 13, 12>>, <<"rotr", 13, 44>>, <<"-=", 12, <<<<"b", 13>>, <<"k", 4>>>>>>, <<"-=", 13, <<<<"k", 5>>, <<"t", 0>>>>>>>>,   \* 2446
    <<<<"^", 11, 10>>, <<"rotr", 11, 47>>, <<"-=", 10, <<<<"b", 11>>, <<"k", 2>>>>>>, <<"-=", 11, <<<<"k", 3>>>>>>>>,   \* 2447
    <<<<"^", 9, 8>>, <<"rotr", 9, 12>>, <<"-=", 8, <<<<"b", 9>>, <<"k", 0>>>>>>, <<"-=", 9, <<<<"k", 1>>>>>>>>,   \* 2448
    <<<<"^", 7, 6>>, <<"rotr", 7, 31>>, <<"-=", 6, <<<<"b", 7>>, <<"k", 15>>>>>>, <<"-=", 7, <<<<"k", 16>>>>>>>>,   \* 2449
    <<<<"^", 5, 4>>, <<"rotr", 5, 37>>, <<"-=", 4, <<<<"b", 5>>, <<"k", 13>>>>>>, <<"-=", 5, <<<<"k", 14>>>>>>>>,   \* 2450
    <<<<"^", 3, 2>>, <<"rotr", 3, 9>>, <<"-=", 2, <<<<"b", 3>>, <<"k", 11>>>>>>, <<"-=", 3, <<<<"k", 12>>>>>>>>,   \* 2451
    <<<<"^", 1, 0>>, <<"rotr", 1, 41>>, <<"-=", 0, <<<<"b", 1>>, <<"k", 9>>>>>>, <<"-=", 1, <<<<"k", 10>>>>>>>>   \* 2452
   >>,
   <<
    <<<<"^", 7, 12>>, <<"rotr", 7, 25>>, <<"-=", 12, <<<<"b", 7>>>>>>>>,   \* 2453
    <<<<"^", 3, 10>>, <<"rotr", 3, 16>>, <<"-=", 10, <<<<"b", 3>>>>>>>>,   \* 2454
    <<<<"^", 5, 8>>, <<"rotr", 5, 28>>, <<"-=", 8, <<<<"b", 5>>>>>>>>,   \* 2455
    <<<<"^", 1, 14>>, <<"rotr", 1, 47>>, <<"-=", 14, <<<<"b", 1>>>>>>>>,   \* 2456
    <<<<"^", 9, 4>>, <<"rotr", 9, 41>>, <<"-=", 4, <<<<"b", 9>>>>>>>>,   \* 2457
    <<<<"^", 13, 6>>, <<"rotr", 13, 48>>, <<"-=", 6, <<<<"b", 13>>>>>>>>,   \* 2458
    <<<<"^", 11, 2>>, <<"rotr", 11, 20>>, <<"-=", 2, <<<<"b", 11>>>>>>>>,   \* 2459
    <<<<"^", 15, 0>>, <<"rotr", 15, 5>>, <<"-=", 0, <<<<"b", 15>>>>>>>>,   \* 2460
    <<<<"^", 9, 10>>, <<"rotr", 9, 17>>, <<"-=", 10, <<<<"b", 9>>>>>>>>,   \* 2461
    <<<<"^", 11, 8>>, <<"rotr", 11, 59>>, <<"-=", 8, <<<<"b", 11>>>>>>>>,   \* 2462
    <<<<"^", 13, 14>>, <<"rotr", 13, 41>>, <<"-=", 14, <<<<"b", 13>>>>>>>>,   \* 2463
    <<<<"^", 15, 12>>, <<"rotr", 15, 34>>, <<"-=", 12, <<<<"b", 15>>>>>>>>,   \* 2464
    <<<<"^", 1, 6>>, <<"rotr", 1, 13>>, <<"-=", 6, <<<<"b", 1>>>>>>>>,   \* 2465
    <<<<"^", 3, 4>>, <<"rotr", 3, 51>>, <<"-=", 4, <<<<"b", 3>>>>>>>>,   \* 2466
    <<<<"^", 5, 2>>, <<"rotr", 5, 4>>, <<"-=", 2, <<<<"b", 5>>>>>>>>,   \* 2467
    <<<<"^", 7, 0>>, <<"rotr", 7, 33>>, <<"-=", 0, <<<<"b", 7>>>>>>>>,   \* 2468
    <<<<"^", 1, 8>>, <<"rotr", 1, 52>>, <<"-=", 8, <<<<"b", 1>>>>>>>>,   \* 2469
    <<<<"^", 5, 14>>, <<"rotr", 5, 23>>, <<"-=", 14, <<<<"b", 5>>>>>>>>,   \* 2470
    <<<<"^", 3, 12>>, <<"rotr", 3, 18>>, <<"-=", 12, <<<<"b", 3>>>>>>>>,   \* 2471
    <<<<"^", 7, 10>>, <<"rotr", 7, 49>>, <<"-=", 10, <<<<"b", 7>>>>>>>>,   \* 2472
    <<<<"^", 15, 4>>, <<"rotr", 15, 55>>, <<"-=", 4, <<<<"b", 15>>>>>>>>,   \* 2473
    <<<<"^", 11, 6>>, <<"rotr", 11, 10>>, <<"-=", 6, <<<<"b", 11>>>>>>>>,   \* 2474
    <<<<"^", 13, 2>>, <<"rotr", 13, 19>>, <<"-=", 2, <<<<"b", 13>>>>>>>>,   \* 2475
    <<<<"^", 9, 0>>, <<"rotr", 9, 38>>, <<"-=", 0, <<<<"b", 9>>>>>>>>,   \* 2476
    <<<<"^", 15, 14>>, <<"rotr", 15, 37>>, <<"-=", 14, <<<<"b", 15>>, <<"k", 5>>, <<"t", 0>>>>>>, <<"-=", 15, <<<<"k", 6>>, <<"n", 8>>>>>>>>,   \* 2477
    <<<<"^", 13, 12>>, <<"rotr", 13, 22>>, <<"-=", 12, <<<<"b", 13>>, <<"k", 3>>>>>>, <<"-=", 13, <<<<"k", 4>>, <<"t", 2>>>>>>>>,   \* 2478
    <<<<"^", 11, 10>>, <<"rotr", 11, 17>>, <<"-=", 10, <<<<"b", 11>>, <<"k", 1>>>>>>, <<"-=", 11, <<<<"k", 2>>>>>>>>,   \* 2479
    <<<<"^", 9, 8>>, <<"rotr", 9, 8>>, <<"-=", 8, <<<<"b", 9>>, <<"k", 16>>>>>>, <<"-=", 9, <<<<"k", 0>>>>>>>>,   \* 2480
    <<<<"^", 7, 6>>, <<"rotr", 7, 47>>, <<"-=", 6, <<<<"b", 7>>, <<"k", 14>>>>>>, <<"-=", 7, <<<<"k", 15>>>>>>>>,   \* 2481
    <<<<"^", 5, 4>>, <<"rotr", 5, 8>>, <<"-=", 4, <<<<"b", 5>>, <<"k", 12>>>>>>, <<"-=", 5, <<<<"k", 13>>>>>>>>,   \* 2482
    <<<<"^", 3, 2>>, <<"rotr", 3, 13>>, <<"-=", 2, <<<<"b", 3>>, <<"k", 10>>>>>>, <<"-=", 3, <<<<"k", 11>>>>>>>>,   \* 2483
    <<<<"^", 1, 0>>, <<"rotr", 1, 24>>, <<"-=", 0, <<<<"b", 1>>, <<"k", 8>>>>>>, <<"-=", 1, <<<<"k", 9>>>>>>>>   \* 2484
   >>,
   <<
    <<<<"^", 7, 12>>, <<"rotr", 7, 20>>, <<"-=", 12, <<<<"b", 7>>>>>>>>,   \* 2485
    <<<<"^", 3, 10>>, <<"rotr", 3, 37>>, <<"-=", 10, <<<<"b", 3>>>>>>>>,   \* 2486
    <<<<"^", 5, 8>>, <<"rotr", 5, 31>>, <<"-=", 8, <<<<"b", 5>>>>>>>>,   \* 2487
    <<<<"^", 1, 14>>, <<"rotr", 1, 23>>, <<"-=", 14, <<<<"b", 1>>>>>>>>,   \* 2488
    <<<<"^", 9, 4>>, <<"rotr", 9, 52>>, <<"-=", 4, <<<<"b", 9>>>>>>>>,   \* 2489
    <<<<"^", 13, 6>>, <<"rotr", 13, 35>>, <<"-=", 6, <<<<"b", 13>>>>>>>>,   \* 2490
    <<<<"^", 11, 2>>, <<"rotr", 11, 48>>, <<"-=", 2, <<<<"b", 11>>>>>>>>,   \* 2491
    <<<<"^", 15, 0>>, <<"rotr", 15, 9>>, <<"-=", 0, <<<<"b", 15>>>>>>>>,   \* 2492
    <<<<"^", 9, 10>>, <<"rotr", 9, 25>>, <<"-=", 10, <<<<"b", 9>>>>>>>>,   \* 2493
    <<<<"^", 11, 8>>, <<"rotr", 11, 44>>, <<"-=", 8, <<<<"b", 11>>>>>>>>,   \* 2494
    <<<<"^", 13, 14>>, <<"rotr", 13, 42>>, <<"-=", 14, <<<<"b", 13>>>>>>>>,   \* 2495
    <<<<"^", 15, 12>>, <<"rotr", 15, 19>>, <<"-=", 12, <<<<"b", 15>>>>>>>>,   \* 2496
    <<<<"^", 1, 6>>, <<"rotr", 1, 46>>, <<"-=", 6, <<<<"b", 1>>>>>>>>,   \* 2497
    <<<<"^", 3, 4>>, <<"rotr", 3, 47>>, <<"-=", 4, <<<<"b", 3>>>>>>>>,   \* 2498
    <<<<"^", 5, 2>>, <<"rotr", 5, 44>>, <<"-=", 2, <<<<"b", 5>>>>>>>>,   \* 2499
    <<<<"^", 7, 0>>, <<"rotr", 7, 31>>, <<"-=", 0, <<<<"b", 7>>>>>>>>,   \* 2500
    <<<<"^", 1, 8>>, <<"rotr", 1, 41>>, <<"-=", 8, <<<<"b", 1>>>>>>>>,   \* 2501
    <<<<"^", 5, 14>>, <<"rotr", 5, 42>>, <<"-=", 14, <<<<"b", 5>>>>>>>>,   \* 2502
    <<<<"^", 3, 12>>, <<"rotr", 3, 53>>, <<"-=", 12, <<<<"b", 3>>>>>>>>,   \* 2503
    <<<<"^", 7, 10>>, <<"rotr", 7, 4>>, <<"-=", 10, <<<<"b", 7>>>>>>>>,   \* 2504
    <<<<"^", 15, 4>>, <<"rotr", 15, 51>>, <<"-=", 4, <<<<"b", 15>>>>>>>>,   \* 2505
    <<<<"^", 11, 6>>, <<"rotr", 11, 56>>, <<"-=", 6, <<<<"b", 11>>>>>>>>,   \* 2506
    <<<<"^", 13, 2>>, <<"rotr", 13, 34>>, <<"-=", 2, <<<<"b", 13>>>>>>>>,   \* 2507
    <<<<"^", 9, 0>>, <<"rotr", 9, 16>>, <<"-=", 0, <<<<"b", 9>>>>>>>>,   \* 2508
    <<<<"^", 15, 14>>, <<"rotr", 15, 30>>, <<"-=", 14, <<<<"b", 15>>, <<"k", 4>>, <<"t", 2>>>>>>, <<"-=", 15, <<<<"k", 5>>, <<"n", 7>>>>>>>>,   \* 2509
    <<<<"^", 13, 12>>, <<"rotr", 13, 44>>, <<"-=", 12, <<<<"b", 13>>, <<"k", 2>>>>>>, <<"-=", 13, <<<<"k", 3>>, <<"t", 1>>>>>>>>,   \* 2510
    <<<<"^", 11, 10>>, <<"rotr", 11, 47>>, <<"-=", 10, <<<<"b", 11>>, <<"k", 0>>>>>>, <<"-=", 11, <<<<"k", 1>>>>>>>>,   \* 2511
    <<<<"^", 9, 8>>, <<"rotr", 9, 12>>, <<"-=", 8, <<<<"b", 9>>, <<"k", 15>>>>>>, <<"-=", 9, <<<<"k", 16>>>>>>>>,   \* 2512
    <<<<"^", 7, 6>>, <<"rotr", 7, 31>>, <<"-=", 6, <<<<"b", 7>>, <<"k", 13>>>>>>, <<"-=", 7, <<<<"k", 14>>>>>>>>,   \* 2513
    <<<<"^", 5, 4>>, <<"rotr", 5, 37>>, <<"-=", 4, <<<<"b", 5>>, <<"k", 11>>>>>>, <<"-=", 5, <<<<"k", 12>>>>>>>>,   \* 2514
    <<<<"^", 3, 2>>, <<"rotr", 3, 9>>, <<"-=", 2, <<<<"b", 3>>, <<"k", 9>>>>>>, <<"-=", 3, <<<<"k", 10>>>>>>>>,   \* 2515
    <<<<"^", 1, 0>>, <<"rotr", 1, 41>>, <<"-=", 0, <<<<"b", 1>>, <<"k", 7>>>>>>, <<"-=", 1, <<<<"k", 8>>>>>>>>   \* 2516
   >>,
   <<
    <<<<"^", 7, 12>>, <<"rotr", 7, 25>>, <<"-=", 12, <<<<"b", 7>>>>>>>>,   \* 2517
    <<<<"^", 3, 10>>, <<"rotr", 3, 16>>, <<"-=", 10, <<<<"b", 3>>>>>>>>,   \* 2518
    <<<<"^", 5, 8>>, <<"rotr", 5, 28>>, <<"-=", 8, <<<<"b", 5>>>>>>>>,   \* 2519
    <<<<"^", 1, 14>>, <<"rotr", 1, 47>>, <<"-=", 14, <<<<"b", 1>>>>>>>>,   \* 2520
    <<<<"^", 9, 4>>, <<"rotr", 9, 41>>, <<"-=", 4, <<<<"b", 9>>>>>>>>,   \* 2521
    <<<<"^", 13, 6>>, <<"rotr", 13, 48>>, <<"-=", 6, <<<<"b", 13>>>>>>>>,   \* 2522
    <<<<"^", 11, 2>>, <<"rotr", 11, 20>>, <<"-=", 2, <<<<"b", 11>>>>>>>>,   \* 2523
    <<<<"^", 15, 0>>, <<"rotr", 15, 5>>, <<"-=", 0, <<<<"b", 15>>>>>>>>,   \* 2524
    <<<<"^", 9, 10>>, <<"rotr", 9, 17>>, <<"-=", 10, <<<<"b", 9>>>>>>>>,   \* 2525
    <<<<"^", 11, 8>>, <<"rotr", 11, 59>>, <<"-=", 8, <<<<"b", 11>>>>>>>>,   \* 2526
    <<<<"^", 13, 14>>, <<"rotr", 13, 41>>, <<"-=", 14, <<<<"b", 13>>>>>>>>,   \* 2527
    <<<<"^", 15, 12>>, <<"rotr", 15, 34>>, <<"-=", 12, <<<<"b", 15>>>>>>>>,   \* 2528
    <<<<"^", 1, 6>>, <<"rotr", 1, 13>>, <<"-=", 6, <<<<"b", 1>>>>>>>>,   \* 2529
    <<<<"^", 3, 4>>, <<"rotr", 3, 51>>, <<"-=", 4, <<<<"b", 3>>>>>>>>,   \* 2530
    <<<<"^", 5, 2>>, <<"rotr", 5, 4>>, <<"-=", 2, <<<<"b", 5>>>>>>>>,   \* 2531
    <<<<"^", 7, 0>>, <<"rotr", 7, 33>>, <<"-=", 0, <<<<"b", 7>>>>>>>>,   \* 2532
    <<<<"^", 1, 8>>, <<"rotr", 1, 52>>, <<"-=", 8, <<<<"b", 1>>>>>>>>,   \* 2533
    <<<<"^", 5, 14>>, <<"rotr", 5, 23>>, <<"-=", 14, <<<<"b", 5>>>>>>>>,   \* 2534
    <<<<"^", 3, 12>>, <<"rotr", 3, 18>>, <<"-=", 12, <<<<"b", 3>>>>>>>>,   \* 2535
    <<<<"^", 7, 10>>, <<"rotr", 7, 49>>, <<"-=", 10, <<<<"b", 7>>>>>>>>,   \* 2536
    <<<<"^", 15, 4>>, <<"rotr", 15, 55>>, <<"-=", 4, <<<<"b", 15>>>>>>>>,   \* 2537
    <<<<"^", 11, 6>>, <<"rotr", 11, 10>>, <<"-=", 6, <<<<"b", 11>>>>>>>>,   \* 2538
    <<<<"^", 13, 2>>, <<"rotr", 13, 19>>, <<"-=", 2, <<<<"b", 13>>>>>>>>,   \* 2539
    <<<<"^", 9, 0>>, <<"rotr", 9, 38>>, <<"-=", 0, <<<<"b", 9>>>>>>>>,   \* 2540
    <<<<"^", 15, 14>>, <<"rotr", 15, 37>>, <<"-=", 14, <<<<"b", 15>>, <<"k", 3>>, <<"t", 1>>>>>>, <<"-=", 15, <<<<"k", 4>>, <<"n", 6>>>>>>>>,   \* 2541
    <<<<"^", 13, 12>>, <<"rotr", 13, 22>>, <<"-=", 12, <<<<"b", 13>>, <<"k", 1>>>>>>, <<"-=", 13, <<<<"k", 2>>, <<"t", 0>>>>>>>>,   \* 2542
    <<<<"^", 11, 10>>, <<"rotr", 11, 17>>, <<"-=", 10, <<<<"b", 11>>, <<"k", 16>>>>>>, <<"-=", 11, <<<<"k", 0>>>>>>>>,   \* 2543
    <<<<"^", 9, 8>>, <<"rotr", 9, 8>>, <<"-=", 8, <<<<"b", 9>>, <<"k", 14>>>>>>, <<"-=", 9, <<<<"k", 15>>>>>>>>,   \* 2544
    <<<<"^", 7, 6>>, <<"rotr", 7, 47>>, <<"-=", 6, <<<<"b", 7>>, <<"k", 12>>>>>>, <<"-=", 7, <<<<"k", 13>>>>>>>>,   \* 2545
    <<<<"^", 5, 4>>, <<"rotr", 5, 8>>, <<"-=", 4, <<<<"b", 5>>, <<"k", 10>>>>>>, <<"-=", 5, <<<<"k", 11>>>>>>>>,   \* 2546
    <<<<"^", 3, 2>>, <<"rotr", 3, 13>>, <<"-=", 2, <<<<"b", 3>>, <<"k", 8>>>>>>, <<"-=", 3, <<<<"k", 9>>>>>>>>,   \* 2547
    <<<<"^", 1, 0>>, <<"rotr", 1, 24>>, <<"-=", 0, <<<<"b", 1>>, <<"k", 6>>>>>>, <<"-=", 1, <<<<"k", 7>>>>>>>>   \* 2548
   >>,
   <<
    <<<<"^", 7, 12>>, <<"rotr", 7, 20>>, <<"-=", 12, <<<<"b", 7>>>>>>>>,   \* 2549
    <<<<"^", 3, 10>>, <<"rotr", 3, 37>>, <<"-=", 10, <<<<"b", 3>>>>>>>>,   \* 2550
    <<<<"^", 5, 8>>, <<"rotr", 5, 31>>, <<"-=", 8, <<<<"b", 5>>>>>>>>,   \* 2551
    <<<<"^", 1, 14>>, <<"rotr", 1, 23>>, <<"-=", 14, <<<<"b", 1>>>>>>>>,   \* 2552
    <<<<"^", 9, 4>>, <<"rotr", 9, 52>>, <<"-=", 4, <<<<"b", 9>>>>>>>>,   \* 2553
    <<<<"^", 13, 6>>, <<"rotr", 13, 35>>, <<"-=", 6, <<<<"b", 13>>>>>>>>,   \* 2554
    <<<<"^", 11, 2>>, <<"rotr", 11, 48>>, <<"-=", 2, <<<<"b", 11>>>>>>>>,   \* 2555
    <<<<"^", 15, 0>>, <<"rotr", 15, 9>>, <<"-=", 0, <<<<"b", 15>>>>>>>>,   \* 2556
    <<<<"^", 9, 10>>, <<"rotr", 9, 25>>, <<"-=", 10, <<<<"b", 9>>>>>>>>,   \* 2557
    <<<<"^", 11, 8>>, <<"rotr", 11, 44>>, <<"-=", 8, <<<<"b", 11>>>>>>>>,   \* 2558
    <<<<"^", 13, 14>>, <<"rotr", 13, 42>>, <<"-=", 14, <<<<"b", 13>>>>>>>>,   \* 2559
    <<<<"^", 15, 12>>, <<"rotr", 15, 19>>, <<"-=", 12, <<<<"b", 15>>>>>>>>,   \* 2560
    <<<<"^", 1, 6>>, <<"rotr", 1, 46>>, <<"-=", 6, <<<<"b", 1>>>>>>>>,   \* 2561
    <<<<"^", 3, 4>>, <<"rotr", 3, 47>>, <<"-=", 4, <<<<"b", 3>>>>>>>>,   \* 2562
    <<<<"^", 5, 2>>, <<"rotr", 5, 44>>, <<"-=", 2, <<<<"b", 5>>>>>>>>,   \* 2563
    <<<<"^", 7, 0>>, <<"rotr", 7, 31>>, <<"-=", 0, <<<<"b", 7>>>>>>>>,   \* 2564
    <<<<"^", 1, 8>>, <<"rotr", 1, 41>>, <<"-=", 8, <<<<"b", 1>>>>>>>>,   \* 2565
    <<<<"^", 5, 14>>, <<"rotr", 5, 42>>, <<"-=", 14, <<<<"b", 5>>>>>>>>,   \* 2566
    <<<<"^", 3, 12>>, <<"rotr", 3, 53>>, <<"-=", 12, <<<<"b", 3>>>>>>>>,   \* 2567
    <<<<"^", 7, 10>>, <<"rotr", 7, 4>>, <<"-=", 10, <<<<"b", 7>>>>>>>>,   \* 2568
    <<<<"^", 15, 4>>, <<"rotr", 15, 51>>, <<"-=", 4, <<<<"b", 15>>>>>>>>,   \* 2569
    <<<<"^", 11, 6>>, <<"rotr", 11, 56>>, <<"-=", 6, <<<<"b", 11>>>>>>>>,   \* 2570
    <<<<"^", 13, 2>>, <<"rotr", 13, 34>>, <<"-=", 2, <<<<"b", 13>>>>>>>>,   \* 2571
    <<<<"^", 9, 0>>, <<"rotr", 9, 16>>, <<"-=", 0, <<<<"b", 9>>>>>>>>,   \* 2572
    <<<<"^", 15, 14>>, <<"rotr", 15, 30>>, <<"-=", 14, <<<<"b", 15>>, <<"k", 2>>, <<"t", 0>>>>>>, <<"-=", 15, <<<<"k", 3>>, <<"n", 5>>>>>>>>,   \* 2573
    <<<<"^", 13, 12>>, <<"rotr", 13, 44>>, <<"-=", 12, <<<<"b", 13>>, <<"k", 0>>>>>>, <<"-=", 13, <<<<"k", 1>>, <<"t", 2>>>>>>>>,   \* 2574
    <<<<"^", 11, 10>>, <<"rotr", 11, 47>>, <<"-=", 10, <<<<"b", 11>>, <<"k", 15>>>>>>, <<"-=", 11, <<<<"k", 16>>>>>>>>,   \* 2575
    <<<<"^", 9, 8>>, <<"rotr", 9, 12>>, <<"-=", 8, <<<<"b", 9>>, <<"k", 13>>>>>>, <<"-=", 9, <<<<"k", 14>>>>>>>>,   \* 2576
    <<<<"^", 7, 6>>, <<"rotr", 7, 31>>, <<"-=", 6, <<<<"b", 7>>, <<"k", 11>>>>>>, <<"-=", 7, <<<<"k", 12>>>>>>>>,   \* 2577
    <<<<"^", 5, 4>>, <<"rotr", 5, 37>>, <<"-=", 4, <<<<"b", 5>>, <<"k", 9>>>>>>, <<"-=", 5, <<<<"k", 10>>>>>>>>,   \* 2578
    <<<<"^", 3, 2>>, <<"rotr", 3, 9>>, <<"-=", 2, <<<<"b", 3>>, <<"k", 7>>>>>>, <<"-=", 3, <<<<"k", 8>>>>>>>>,   \* 2579
    <<<<"^", 1, 0>>, <<"rotr", 1, 41>>, <<"-=", 0, <<<<"b", 1>>, <<"k", 5>>>>>>, <<"-=", 1, <<<<"k", 6>>>>>>>>   \* 2580
   >>,
   <<
    <<<<"^", 7, 12>>, <<"rotr", 7, 25>>, <<"-=", 12, <<<<"b", 7>>>>>>>>,   \* 2581
    <<<<"^", 3, 10>>, <<"rotr", 3, 16>>, <<"-=", 10, <<<<"b", 3>>>>>>>>,   \* 2582
    <<<<"^", 5, 8>>, <<"rotr", 5, 28>>, <<"-=", 8, <<<<"b", 5>>>>>>>>,   \* 2583
    <<<<"^", 1, 14>>, <<"rotr", 1, 47>>, <<"-=", 14, <<<<"b", 1>>>>>>>>,   \* 2584
    <<<<"^", 9, 4>>, <<"rotr", 9, 41>>, <<"-=", 4, <<<<"b", 9>>>>>>>>,   \* 2585
    <<<<"^", 13, 6>>, <<"rotr", 13, 48>>, <<"-=", 6, <<<<"b", 13>>>>>>>>,   \* 2586
    <<<<"^", 11, 2>>, <<"rotr", 11, 20>>, <<"-=", 2, <<<<"b", 11>>>>>>>>,   \* 2587
    <<<<"^", 15, 0>>, <<"rotr", 15, 5>>, <<"-=", 0, <<<<"b", 15>>>>>>>>,   \* 2588
    <<<<"^", 9, 10>>, <<"rotr", 9, 17>>, <<"-=", 10, <<<<"b", 9>>>>>>>>,   \* 2589
    <<<<"^", 11, 8>>, <<"rotr", 11, 59>>, <<"-=", 8, <<<<"b", 11>>>>>>>>,   \* 2590
    <<<<"^", 13, 14>>, <<"rotr", 13, 41>>, <<"-=", 14, <<<<"b", 13>>>>>>>>,   \* 2591
    <<<<"^", 15, 12>>, <<"rotr", 15, 34>>, <<"-=", 12, <<<<"b", 15>>>>>>>>,   \* 2592
    <<<<"^", 1, 6>>, <<"rotr", 1, 13>>, <<"-=", 6, <<<<"b", 1>>>>>>>>,   \* 2593
    <<<<"^", 3, 4>>, <<"rotr", 3, 51>>, <<"-=", 4, <<<<"b", 3>>>>>>>>,   \* 2594
    <<<<"^", 5, 2>>, <<"rotr", 5, 4>>, <<"-=", 2, <<<<"b", 5>>>>>>>>,   \* 2595
    <<<<"^", 7, 0>>, <<"rotr", 7, 33>>, <<"-=", 0, <<<<"b", 7>>>>>>>>,   \* 2596
    <<<<"^", 1, 8>>, <<"rotr", 1, 52>>, <<"-=", 8, <<<<"b", 1>>>>>>>>,   \* 2597
    <<<<"^", 5, 14>>, <<"rotr", 5, 23>>, <<"-=", 14, <<<<"b", 5>>>>>>>>,   \* 2598
    <<<<"^", 3, 12>>, <<"rotr", 3, 18>>, <<"-=", 12, <<<<"b", 3>>>>>>>>,   \* 2599
    <<<<"^", 7, 10>>, <<"rotr", 7, 49>>, <<"-=", 10, <<<<"b", 7>>>>>>>>,   \* 2600
    <<<<"^", 15, 4>>, <<"rotr", 15, 55>>, <<"-=", 4, <<<<"b", 15>>>>>>>>,   \* 2601
    <<<<"^", 11, 6>>, <<"rotr", 11, 10>>, <<"-=", 6, <<<<"b", 11>>>>>>>>,   \* 2602
    <<<<"^", 13, 2>>, <<"rotr", 13, 19>>, <<"-=", 2, <<<<"b", 13>>>>>>>>,   \* 2603
    <<<<"^", 9, 0>>, <<"rotr", 9, 38>>, <<"-=", 0, <<<<"b", 9>>>>>>>>,   \* 2604
    <<<<"^", 15, 14>>, <<"rotr", 15, 37>>, <<"-=", 14, <<<<"b", 15>>, <<"k", 1>>, <<"t", 2>>>>>>, <<"-=", 15, <<<<"k", 2>>, <<"n", 4>>>>>>>>,   \* 2605
    <<<<"^", 13, 12>>, <<"rotr", 13, 22>>, <<"-=", 12, <<<<"b", 13>>, <<"k", 16>>>>>>, <<"-=", 13, <<<<"k", 0>>, <<"t", 1>>>>>>>>,   \* 2606
    <<<<"^", 11, 10>>, <<"rotr", 11, 17>>, <<"-=", 10, <<<<"b", 11>>, <<"k", 14>>>>>>, <<"-=", 11, <<<<"k", 15>>>>>>>>,   \* 2607
    <<<<"^", 9, 8>>, <<"rotr", 9, 8>>, <<"-=", 8, <<<<"b", 9>>, <<"k", 12>>>>>>, <<"-=", 9, <<<<"k", 13>>>>>>>>,   \* 2608
    <<<<"^", 7, 6>>, <<"rotr", 7, 47>>, <<"-=", 6, <<<<"b", 7>>, <<"k", 10>>>>>>, <<"-=", 7, <<<<"k", 11>>>>>>>>,   \* 2609
    <<<<"^", 5, 4>>, <<"rotr", 5, 8>>, <<"-=", 4, <<<<"b", 5>>, <<"k", 8>>>>>>, <<"-=", 5, <<<<"k", 9>>>>>>>>,   \* 2610
    <<<<"^", 3, 2>>, <<"rotr", 3, 13>>, <<"-=", 2, <<<<"b", 3>>, <<"k", 6>>>>>>, <<"-=", 3, <<<<"k", 7>>>>>>>>,   \* 2611
    <<<<"^", 1, 0>>, <<"rotr", 1, 24>>, <<"-=", 0, <<<<"b", 1>>, <<"k", 4>>>>>>, <<"-=", 1, <<<<"k", 5>>>>>>>>   \* 2612
   >>,
   <<
    <<<<"^", 7, 12>>, <<"rotr", 7, 20>>, <<"-=", 12, <<<<"b", 7>>>>>>>>,   \* 2613
    <<<<"^", 3, 10>>, <<"rotr", 3, 37>>, <<"-=", 10, <<<<"b", 3>>>>>>>>,   \* 2614
    <<<<"^", 5, 8>>, <<"rotr", 5, 31>>, <<"-=", 8, <<<<"b", 5>>>>>>>>,   \* 2615
    <<<<"^", 1, 14>>, <<"rotr", 1, 23>>, <<"-=", 14, <<<<"b", 1>>>>>>>>,   \* 2616
    <<<<"^", 9, 4>>, <<"rotr", 9, 52>>, <<"-=", 4, <<<<"b", 9>>>>>>>>,   \* 2617
    <<<<"^", 13, 6>>, <<"rotr", 13, 35>>, <<"-=", 6, <<<<"b", 13>>>>>>>>,   \* 2618
    <<<<"^", 11, 2>>, <<"rotr", 11, 48>>, <<"-=", 2, <<<<"b", 11>>>>>>>>,   \* 2619
    <<<<"^", 15, 0>>, <<"rotr", 15, 9>>, <<"-=", 0, <<<<"b", 15>>>>>>>>,   \* 2620
    <<<<"^", 9, 10>>, <<"rotr", 9, 25>>, <<"-=", 10, <<<<"b", 9>>>>>>>>,   \* 2621
    <<<<"^", 11, 8>>, <<"rotr", 11, 44>>, <<"-=", 8, <<<<"b", 11>>>>>>>>,   \* 2622
    <<<<"^", 13, 14>>, <<"rotr", 13, 42>>, <<"-=", 14, <<<<"b", 13>>>>>>>>,   \* 2623
    <<<<"^", 15, 12>>, <<"rotr", 15, 19>>, <<"-=", 12, <<<<"b", 15>>>>>>>>,   \* 2624
    <<<<"^", 1, 6>>, <<"rotr", 1, 46>>, <<"-=", 6, <<<<"b", 1>>>>>>>>,   \* 2625
    <<<<"^", 3, 4>>, <<"rotr", 3, 47>>, <<"-=", 4, <<<<"b", 3>>>>>>>>,   \* 2626
    <<<<"^", 5, 2>>, <<"rotr", 5, 44>>, <<"-=", 2, <<<<"b", 5>>>>>>>>,   \* 2627
    <<<<"^", 7, 0>>, <<"rotr", 7, 31>>, <<"-=", 0, <<<<"b", 7>>>>>>>>,   \* 2628
    <<<<"^", 1, 8>>, <<"rotr", 1, 41>>, <<"-=", 8, <<<<"b", 1>>>>>>>>,   \* 2629
    <<<<"^", 5, 14>>, <<"rotr", 5, 42>>, <<"-=", 14, <<<<"b", 5>>>>>>>>,   \* 2630
    <<<<"^", 3, 12>>, <<"rotr", 3, 53>>, <<"-=", 12, <<<<"b", 3>>>>>>>>,   \* 2631
    <<<<"^", 7, 10>>, <<"rotr", 7, 4>>, <<"-=", 10, <<<<"b", 7>>>>>>>>,   \* 2632
    <<<<"^", 15, 4>>, <<"rotr", 15, 51>>, <<"-=", 4, <<<<"b", 15>>>>>>>>,   \* 2633
    <<<<"^", 11, 6>>, <<"rotr", 11, 56>>, <<"-=", 6, <<<<"b", 11>>>>>>>>,   \* 2634
    <<<<"^", 13, 2>>, <<"rotr", 13, 34>>, <<"-=", 2, <<<<"b", 13>>>>>>>>,   \* 2635
    <<<<"^", 9, 0>>, <<"rotr", 9, 16>>, <<"-=", 0, <<<<"b", 9>>>>>>>>,   \* 2636
    <<<<"^", 15, 14>>, <<"rotr", 15, 30>>, <<"-=", 14, <<<<"b", 15>>, <<"k", 0>>, <<"t", 1>>>>>>, <<"-=", 15, <<<<"k", 1>>, <<"n", 3>>>>>>>>,   \* 2637
    <<<<"^", 13, 12>>, <<"rotr", 13, 44>>, <<"-=", 12, <<<<"b", 13>>, <<"k", 15>>>>>>, <<"-=", 13, <<<<"k", 16>>, <<"t", 0>>>>>>>>,   \* 2638
    <<<<"^", 11, 10>>, <<"rotr", 11, 47>>, <<"-=", 10, <<<<"b", 11>>, <<"k", 13>>>>>>, <<"-=", 11, <<<<"k", 14>>>>>>>>,   \* 2639
    <<<<"^", 9, 8>>, <<"rotr", 9, 12>>, <<"-=", 8, <<<<"b", 9>>, <<"k", 11>>>>>>, <<"-=", 9, <<<<"k", 12>>>>>>>>,   \* 2640
    <<<<"^", 7, 6>>, <<"rotr", 7, 31>>, <<"-=", 6, <<<<"b", 7>>, <<"k", 9>>>>>>, <<"-=", 7, <<<<"k", 10>>>>>>>>,   \* 2641
    <<<<"^", 5, 4>>, <<"rotr", 5, 37>>, <<"-=", 4, <<<<"b", 5>>, <<"k", 7>>>>>>, <<"-=", 5, <<<<"k", 8>>>>>>>>,   \* 2642
    <<<<"^", 3, 2>>, <<"rotr", 3, 9>>, <<"-=", 2, <<<<"b", 3>>, <<"k", 5>>>>>>, <<"-=", 3, <<<<"k", 6>>>>>>>>,   \* 2643
    <<<<"^", 1, 0>>, <<"rotr", 1, 41>>, <<"-=", 0, <<<<"b", 1>>, <<"k", 3>>>>>>, <<"-=", 1, <<<<"k", 4>>>>>>>>   \* 2644
   >>,
   <<
    <<<<"^", 7, 12>>, <<"rotr", 7, 25>>, <<"-=", 12, <<<<"b", 7>>>>>>>>,   \* 2645
    <<<<"^", 3, 10>>, <<"rotr", 3, 16>>, <<"-=", 10, <<<<"b", 3>>>>>>>>,   \* 2646
    <<<<"^", 5, 8>>, <<"rotr", 5, 28>>, <<"-=", 8, <<<<"b", 5>>>>>>>>,   \* 2647
    <<<<"^", 1, 14>>, <<"rotr", 1, 47>>, <<"-=", 14, <<<<"b", 1>>>>>>>>,   \* 2648
    <<<<"^", 9, 4>>, <<"rotr", 9, 41>>, <<"-=", 4, <<<<"b", 9>>>>>>>>,   \* 2649
    <<<<"^", 13, 6>>, <<"rotr", 13, 48>>, <<"-=", 6, <<<<"b", 13>>>>>>>>,   \* 2650
    <<<<"^", 11, 2>>, <<"rotr", 11, 20>>, <<"-=", 2, <<<<"b", 11>>>>>>>>,   \* 2651
    <<<<"^", 15, 0>>, <<"rotr", 15, 5>>, <<"-=", 0, <<<<"b", 15>>>>>>>>,   \* 2652
    <<<<"^", 9, 10>>, <<"rotr", 9, 17>>, <<"-=", 10, <<<<"b", 9>>>>>>>>,   \* 2653
    <<<<"^", 11, 8>>, <<"rotr", 11, 59>>, <<"-=", 8, <<<<"b", 11>>>>>>>>,   \* 2654
    <<<<"^", 13, 14>>, <<"rotr", 13, 41>>, <<"-=", 14, <<<<"b", 13>>>>>>>>,   \* 2655
    <<<<"^", 15, 12>>, <<"rotr", 15, 34>>, <<"-=", 12, <<<<"b", 15>>>>>>>>,   \* 2656
    <<<<"^", 1, 6>>, <<"rotr", 1, 13>>, <<"-=", 6, <<<<"b", 1>>>>>>>>,   \* 2657
    <<<<"^", 3, 4>>, <<"rotr", 3, 51>>, <<"-=", 4, <<<<"b", 3>>>>>>>>,   \* 2658
    <<<<"^", 5, 2>>, <<"rotr", 5, 4>>, <<"-=", 2, <<<<"b", 5>>>>>>>>,   \* 2659
    <<<<"^", 7, 0>>, <<"rotr", 7, 33>>, <<"-=", 0, <<<<"b", 7>>>>>>>>,   \* 2660
    <<<<"^", 1, 8>>, <<"rotr", 1, 52>>, <<"-=", 8, <<<<"b", 1>>>>>>>>,   \* 2661
    <<<<"^", 5, 14>>, <<"rotr", 5, 23>>, <<"-=", 14, <<<<"b", 5>>>>>>>>,   \* 2662
    <<<<"^", 3, 12>>, <<"rotr", 3, 18>>, <<"-=", 12, <<<<"b", 3>>>>>>>>,   \* 2663
    <<<<"^", 7, 10>>, <<"rotr", 7, 49>>, <<"-=", 10, <<<<"b", 7>>>>>>>>,   \* 2664
    <<<<"^", 15, 4>>, <<"rotr", 15, 55>>, <<"-=", 4, <<<<"b", 15>>>>>>>>,   \* 2665
    <<<<"^", 11, 6>>, <<"rotr", 11, 10>>, <<"-=", 6, <<<<"b", 11>>>>>>>>,   \* 2666
    <<<<"^", 13, 2>>, <<"rotr", 13, 19>>, <<"-=", 2, <<<<"b", 13>>>>>>>>,   \* 2667
    <<<<"^", 9, 0>>, <<"rotr", 9, 38>>, <<"-=", 0, <<<<"b", 9>>>>>>>>,   \* 2668
    <<<<"^", 15, 14>>, <<"rotr", 15, 37>>, <<"-=", 14, <<<<"b", 15>>, <<"k", 16>>, <<"t", 0>>>>>>, <<"-=", 15, <<<<"k", 0>>, <<"n", 2>>>>>>>>,   \* 2669
    <<<<"^", 13, 12>>, <<"rotr", 13, 22>>, <<"-=", 12, <<<<"b", 13>>, <<"k", 14>>>>>>, <<"-=", 13, <<<<"k", 15>>, <<"t", 2>>>>>>>>,   \* 2670
    <<<<"^", 11, 10>>, <<"rotr", 11, 17>>, <<"-=", 10, <<<<"b", 11>>, <<"k", 12>>>>>>, <<"-=", 11, <<<<"k", 13>>>>>>>>,   \* 2671
    <<<<"^", 9, 8>>, <<"rotr", 9, 8>>, <<"-=", 8, <<<<"b", 9>>, <<"k", 10>>>>>>, <<"-=", 9, <<<<"k", 11>>>>>>>>,   \* 2672
    <<<<"^", 7, 6>>, <<"rotr", 7, 47>>, <<"-=", 6, <<<<"b", 7>>, <<"k", 8>>>>>>, <<"-=", 7, <<<<"k", 9>>>>>>>>,   \* 2673
    <<<<"^", 5, 4>>, <<"rotr", 5, 8>>, <<"-=", 4, <<<<"b", 5>>, <<"k", 6>>>>>>, <<"-=", 5, <<<<"k", 7>>>>>>>>,   \* 2674
    <<<<"^", 3, 2>>, <<"rotr", 3, 13>>, <<"-=", 2, <<<<"b", 3>>, <<"k", 4>>>>>>, <<"-=", 3, <<<<"k", 5>>>>>>>>,   \* 2675
    <<<<"^", 1, 0>>, <<"rotr", 1, 24>>, <<"-=", 0, <<<<"b", 1>>, <<"k", 2>>>>>>, <<"-=", 1, <<<<"k", 3>>>>>>>>   \* 2676
   >>,
   <<
    <<<<"^", 7, 12>>, <<"rotr", 7, 20>>, <<"-=", 12, <<<<"b", 7>>>>>>>>,   \* 2677
    <<<<"^", 3, 10>>, <<"rotr", 3, 37>>, <<"-=", 10, <<<<"b", 3>>>>>>>>,   \* 2678
    <<<<"^", 5, 8>>, <<"rotr", 5, 31>>, <<"-=", 8, <<<<"b", 5>>>>>>>>,   \* 2679
    <<<<"^", 1, 14>>, <<"rotr", 1, 23>>, <<"-=", 14, <<<<"b", 1>>>>>>>>,   \* 2680
    <<<<"^", 9, 4>>, <<"rotr", 9, 52>>, <<"-=", 4, <<<<"b", 9>>>>>>>>,   \* 2681
    <<<<"^", 13, 6>>, <<"rotr", 13, 35>>, <<"-=", 6, <<<<"b", 13>>>>>>>>,   \* 2682
    <<<<"^", 11, 2>>, <<"rotr", 11, 48>>, <<"-=", 2, <<<<"b", 11>>>>>>>>,   \* 2683
    <<<<"^", 15, 0>>, <<"rotr", 15, 9>>, <<"-=", 0, <<<<"b", 15>>>>>>>>,   \* 2684
    <<<<"^", 9, 10>>, <<"rotr", 9, 25>>, <<"-=", 10, <<<<"b", 9>>>>>>>>,   \* 2685
    <<<<"^", 11, 8>>, <<"rotr", 11, 44>>, <<"-=", 8, <<<<"b", 11>>>>>>>>,   \* 2686
    <<<<"^", 13, 14>>, <<"rotr", 13, 42>>, <<"-=", 14, <<<<"b", 13>>>>>>>>,   \* 2687
    <<<<"^", 15, 12>>, <<"rotr", 15, 19>>, <<"-=", 12, <<<<"b", 15>>>>>>>>,   \* 2688
    <<<<"^", 1, 6>>, <<"rotr", 1, 46>>, <<"-=", 6, <<<<"b", 1>>>>>>>>,   \* 2689
    <<<<"^", 3, 4>>, <<"rotr", 3, 47>>, <<"-=", 4, <<<<"b", 3>>>>>>>>,   \* 2690
    <<<<"^", 5, 2>>, <<"rotr", 5, 44>>, <<"-=", 2, <<<<"b", 5>>>>>>>>,   \* 2691
    <<<<"^", 7, 0>>, <<"rotr", 7, 31>>, <<"-=", 0, <<<<"b", 7>>>>>>>>,   \* 2692
    <<<<"^", 1, 8>>, <<"rotr", 1, 41>>, <<"-=", 8, <<<<"b", 1>>>>>>>>,   \* 2693
    <<<<"^", 5, 14>>, <<"rotr", 5, 42>>, <<"-=", 14, <<<<"b", 5>>>>>>>>,   \* 2694
    <<<<"^", 3, 12>>, <<"rotr", 3, 53>>, <<"-=", 12, <<<<"b", 3>>>>>>>>,   \* 2695
    <<<<"^", 7, 10>>, <<"rotr", 7, 4>>, <<"-=", 10, <<<<"b", 7>>>>>>>>,   \* 2696
    <<<<"^", 15, 4>>, <<"rotr", 15, 51>>, <<"-=", 4, <<<<"b", 15>>>>>>>>,   \* 2697
    <<<<"^", 11, 6>>, <<"rotr", 11, 56>>, <<"-=", 6, <<<<"b", 11>>>>>>>>,   \* 2698
    <<<<"^", 13, 2>>, <<"rotr", 13, 34>>, <<"-=", 2, <<<<"b", 13>>>>>>>>,   \* 2699
    <<<<"^", 9, 0>>, <<"rotr", 9, 16>>, <<"-=", 0, <<<<"b", 9>>>>>>>>,   \* 2700
    <<<<"^", 15, 14>>, <<"rotr", 15, 30>>, <<"-=", 14, <<<<"b", 15>>, <<"k", 15>>, <<"t", 2>>>>>>, <<"-=", 15, <<<<"k", 16>>, <<"n", 1>>>>>>>>,   \* 2701
    <<<<"^", 13, 12>>, <<"rotr", 13, 44>>, <<"-=", 12, <<<<"b", 13>>, <<"k", 13>>>>>>, <<"-=", 13, <<<<"k", 14>>, <<"t", 1>>>>>>>>,   \* 2702
    <<<<"^", 11, 10>>, <<"rotr", 11, 47>>, <<"-=", 10, <<<<"b", 11>>, <<"k", 11>>>>>>, <<"-=", 11, <<<<"k", 12>>>>>>>>,   \* 2703
    <<<<"^", 9, 8>>, <<"rotr", 9, 12>>, <<"-=", 8, <<<<"b", 9>>, <<"k", 9>>>>>>, <<"-=", 9, <<<<"k", 10>>>>>>>>,   \* 2704
    <<<<"^", 7, 6>>, <<"rotr", 7, 31>>, <<"-=", 6, <<<<"b", 7>>, <<"k", 7>>>>>>, <<"-=", 7, <<<<"k", 8>>>>>>>>,   \* 2705
    <<<<"^", 5, 4>>, <<"rotr", 5, 37>>, <<"-=", 4, <<<<"b", 5>>, <<"k", 5>>>>>>, <<"-=", 5, <<<<"k", 6>>>>>>>>,   \* 2706
    <<<<"^", 3, 2>>, <<"rotr", 3, 9>>, <<"-=", 2, <<<<"b", 3>>, <<"k", 3>>>>>>, <<"-=", 3, <<<<"k", 4>>>>>>>>,   \* 2707
    <<<<"^", 1, 0>>, <<"rotr", 1, 41>>, <<"-=", 0, <<<<"b", 1>>, <<"k", 1>>>>>>, <<"-=", 1, <<<<"k", 2>>>>>>>>   \* 2708
   >>,
   <<
    <<<<"^", 7, 12>>, <<"rotr", 7, 25>>, <<"-=", 12, <<<<"b", 7>>>>>>>>,   \* 2709
    <<<<"^", 3, 10>>, <<"rotr", 3, 16>>, <<"-=", 10, <<<<"b", 3>>>>>>>>,   \* 2710
    <<<<"^", 5, 8>>, <<"rotr", 5, 28>>, <<"-=", 8, <<<<"b", 5>>>>>>>>,   \* 2711
    <<<<"^", 1, 14>>, <<"rotr", 1, 47>>, <<"-=", 14, <<<<"b", 1>>>>>>>>,   \* 2712
    <<<<"^", 9, 4>>, <<"rotr", 9, 41>>, <<"-=", 4, <<<<"b", 9>>>>>>>>,   \* 2713
    <<<<"^", 13, 6>>, <<"rotr", 13, 48>>, <<"-=", 6, <<<<"b", 13>>>>>>>>,   \* 2714
    <<<<"^", 11, 2>>, <<"rotr", 11, 20>>, <<"-=", 2, <<<<"b", 11>>>>>>>>,   \* 2715
    <<<<"^", 15, 0>>, <<"rotr", 15, 5>>, <<"-=", 0, <<<<"b", 15>>>>>>>>,   \* 2716
    <<<<"^", 9, 10>>, <<"rotr", 9, 17>>, <<"-=", 10, <<<<"b", 9>>>>>>>>,   \* 2717
    <<<<"^", 11, 8>>, <<"rotr", 11, 59>>, <<"-=", 8, <<<<"b", 11>>>>>>>>,   \* 2718
    <<<<"^", 13, 14>>, <<"rotr", 13, 41>>, <<"-=", 14, <<<<"b", 13>>>>>>>>,   \* 2719
    <<<<"^", 15, 12>>, <<"rotr", 15, 34>>, <<"-=", 12, <<<<"b", 15>>>>>>>>,   \* 2720
    <<<<"^", 1, 6>>, <<"rotr", 1, 13>>, <<"-=", 6, <<<<"b", 1>>>>>>>>,   \* 2721
    <<<<"^", 3, 4>>, <<"rotr", 3, 51>>, <<"-=", 4, <<<<"b", 3>>>>>>>>,   \* 2722
    <<<<"^", 5, 2>>, <<"rotr", 5, 4>>, <<"-=", 2, <<<<"b", 5>>>>>>>>,   \* 2723
    <<<<"^", 7, 0>>, <<"rotr", 7, 33>>, <<"-=", 0, <<<<"b", 7>>>>>>>>,   \* 2724
    <<<<"^", 1, 8>>, <<"rotr", 1, 52>>, <<"-=", 8, <<<<"b", 1>>>>>>>>,   \* 2725
    <<<<"^", 5, 14>>, <<"rotr", 5, 23>>, <<"-=", 14, <<<<"b", 5>>>>>>>>,   \* 2726
    <<<<"^", 3, 12>>, <<"rotr", 3, 18>>, <<"-=", 12, <<<<"b", 3>>>>>>>>,   \* 2727
    <<<<"^", 7, 10>>, <<"rotr", 7, 49>>, <<"-=", 10, <<<<"b", 7>>>>>>>>,   \* 2728
    <<<<"^", 15, 4>>, <<"rotr", 15, 55>>, <<"-=", 4, <<<<"b", 15>>>>>>>>,   \* 2729
    <<<<"^", 11, 6>>, <<"rotr", 11, 10>>, <<"-=", 6, <<<<"b", 11>>>>>>>>,   \* 2730
    <<<<"^", 13, 2>>, <<"rotr", 13, 19>>, <<"-=", 2, <<<<"b", 13>>>>>>>>,   \* 2731
    <<<<"^", 9, 0>>, <<"rotr", 9, 38>>, <<"-=", 0, <<<<"b", 9>>>>>>>>,   \* 2732
    <<<<"^", 15, 14>>, <<"rotr", 15, 37>>, <<"-=", 14, <<<<"b", 15>>, <<"k", 14>>, <<"t", 1>>>>>>, <<"-=", 15, <<<<"k", 15>>>>>>>>,   \* 2733
    <<<<"^", 13, 12>>, <<"rotr", 13, 22>>, <<"-=", 12, <<<<"b", 13>>, <<"k", 12>>>>>>, <<"-=", 13, <<<<"k", 13>>, <<"t", 0>>>>>>>>,   \* 2734
    <<<<"^", 11, 10>>, <<"rotr", 11, 17>>, <<"-=", 10, <<<<"b", 11>>, <<"k", 10>>>>>>, <<"-=", 11, <<<<"k", 11>>>>>>>>,   \* 2735
    <<<<"^", 9, 8>>, <<"rotr", 9, 8>>, <<"-=", 8, <<<<"b", 9>>, <<"k", 8>>>>>>, <<"-=", 9, <<<<"k", 9>>>>>>>>,   \* 2736
    <<<<"^", 7, 6>>, <<"rotr", 7, 47>>, <<"-=", 6, <<<<"b", 7>>, <<"k", 6>>>>>>, <<"-=", 7, <<<<"k", 7>>>>>>>>,   \* 2737
    <<<<"^", 5, 4>>, <<"rotr", 5, 8>>, <<"-=", 4, <<<<"b", 5>>, <<"k", 4>>>>>>, <<"-=", 5, <<<<"k", 5>>>>>>>>,   \* 2738
    <<<<"^", 3, 2>>, <<"rotr", 3, 13>>, <<"-=", 2, <<<<"b", 3>>, <<"k", 2>>>>>>, <<"-=", 3, <<<<"k", 3>>>>>>>>,   \* 2739
    <<<<"^", 1, 0>>, <<"rotr", 1, 24>>, <<"-=", 0, <<<<"b", 1>>, <<"k", 0>>>>>>, <<"-=", 1, <<<<"k", 1>>>>>>>>   \* 2740
   >>,
   <<
    <<<<"out", 15, <<<<"b", 15>>>>>>>>,   \* 2742
    <<<<"out", 14, <<<<"b", 14>>>>>>>>,   \* 2743
    <<<<"out", 13, <<<<"b", 13>>>>>>>>,   \* 2744
    <<<<"out", 12, <<<<"b", 12>>>>>>>>,   \* 2745
    <<<<"out", 11, <<<<"b", 11>>>>>>>>,   \* 2746
    <<<<"out", 10, <<<<"b", 10>>>>>>>>,   \* 2747
    <<<<"out", 9, <<<<"b", 9>>>>>>>>,   \* 2748
    <<<<"out", 8, <<<<"b", 8>>>>>>>>,   \* 2749
    <<<<"out", 7, <<<<"b", 7>>>>>>>>,   \* 2750
    <<<<"out", 6, <<<<"b", 6>>>>>>>>,   \* 2751
    <<<<"out", 5, <<<<"b", 5>>>>>>>>,   \* 2752
    <<<<"out", 4, <<<<"b", 4>>>>>>>>,   \* 2753
    <<<<"out", 3, <<<<"b", 3>>>>>>>>,   \* 2754
    <<<<"out", 2, <<<<"b", 2>>>>>>>>,   \* 2755
    <<<<"out", 1, <<<<"b", 1>>>>>>>>,   \* 2756
    <<<<"out", 0, <<<<"b", 0>>>>>>>>   \* 2757
   >>
  >>

(* func (tf *threefish1024) decrypt(input, output []uint64): output afterwards *)
decrypt1024(tf, input, output) ==
  Run(tf, decrypt1024Code, CIPHER_QWORDS_1024, input, output)

----------------------------------------------------------------------------
(* type cipherInternal interface: the dispatch on the variant *)

encrypt(tf, input, output) ==
  CASE tf.type = CIPHER_SIZE_256 -> encrypt256(tf, input, output)
    [] tf.type = CIPHER_SIZE_512 -> encrypt512(tf, input, output)
    [] tf.type = CIPHER_SIZE_1024 -> encrypt1024(tf, input, output)

decrypt(tf, input, output) ==
  CASE tf.type = CIPHER_SIZE_256 -> decrypt256(tf, input, output)
    [] tf.type = CIPHER_SIZE_512 -> decrypt512(tf, input, output)
    [] tf.type = CIPHER_SIZE_1024 -> decrypt1024(tf, input, output)

(* func (tf *threefish256) getTempData(), and its 512 and 1024 twins *)
getTempData(tf) == <<tf.tmpData1, tf.tmpData2>>

(* func (tf *threefish256) setTweak(tweak), and its 512 and 1024 twins *)
internalSetTweak(tf, tweak) ==
  [tf EXCEPT !.expanedTweak = setTweak(tweak, tf.expanedTweak)]

(* setKey as a rebuild of the instance: the tweak words start from zero *)
internalSetKeyRebuilding(tf, key) ==
  [tf EXCEPT !.expanedKey = setKey(key.data, tf.expanedKey),
             !.expanedTweak = Zeros(EXPANDED_TWEAK_SIZE)]

(* func (tf *threefish256) setKey(key), and its 512 and 1024 twins *)
internalSetKey(tf, key) ==
  [tf EXCEPT !.expanedKey = setKey(key.data, tf.expanedKey)]

----------------------------------------------------------------------------
(* type Cipher struct { stateSize int; internal cipherInternal } *)

NilCipher == [isNil |-> TRUE, stateSize |-> 0, internal |-> [type |-> 0]]
Cipher(size, tf) == [isNil |-> FALSE, stateSize |-> size, internal |-> tf]

(* os.Error: nil, or a KeySizeError *)
NoError == [isNil |-> TRUE, size |-> 0]
KeySizeError(n) == [isNil |-> FALSE, size |-> n]

(* what one API call leaves with the client *)
NoCall ==
  [op |-> "idle", key |-> NilSlice, tweak |-> NilSlice, size |-> 0,
   src |-> <<>>, dst |-> <<>>, ret |-> 0, err |-> NoError, panic |-> FALSE]

(* NewCipher with no error in the default case *)
NewCipherNoError(key, tweak) ==
  LET n == Len(key.data)
  IN  CASE n = 32 -> <<Cipher(n * 8, newThreefish256(key, tweak)), NoError>>
        [] n = 64 -> <<Cipher(n * 8, newThreefish512(key, tweak)), NoError>>
        [] n = 128 -> <<Cipher(n * 8, newThreefish1024(key, tweak)), NoError>>
        [] OTHER -> <<NilCipher, NoError>>

(* func NewCipher(key []byte, tweak []uint64): the pair (Cipher, os.Error) returned *)
NewCipherResult(key, tweak) ==
  LET n == Len(key.data)
  IN  CASE n = 32 -> <<Cipher(n * 8, newThreefish256(key, tweak)), NoError>>
        [] n = 64 -> <<Cipher(n * 8, newThreefish512(key, tweak)), NoError>>
        [] n = 128 -> <<Cipher(n * 8, newThreefish1024(key, tweak)), NoError>>
        [] OTHER -> <<NilCipher, KeySizeError(n)>>

(* func NewCipher64(key, tweak []uint64): the pair (Cipher, os.Error) returned *)
NewCipher64Result(key, tweak) ==
  LET n == Len(key.data)
  IN  CASE n = 4 -> <<Cipher(n * 8, newThreefish256_64(key, tweak)), NoError>>
        [] n = 8 -> <<Cipher(n * 8, newThreefish512_64(key, tweak)), NoError>>
        [] n = 16 -> <<Cipher(n * 8, newThreefish1024_64(key, tweak)), NoError>>
        [] OTHER -> <<NilCipher, KeySizeError(n)>>

(* func NewCipherSize(size int): the pair (Cipher, os.Error) returned *)
NewCipherSizeResult(size) ==
  CASE size = 256 -> <<Cipher(size, newThreefish256(NilSlice, NilSlice)), NoError>>
    [] size = 512 -> <<Cipher(size, newThreefish512(NilSlice, NilSlice)), NoError>>
    [] size = 1024 -> <<Cipher(size, newThreefish1024(NilSlice, NilSlice)), NoError>>
    [] OTHER -> <<NilCipher, KeySizeError(size)>>

(* func (c *Cipher) BlockSize() int *)
BlockSizeOf(ci) == ci.stateSize \div 8

(* the loop  for i := 0; i < uintLen; i++ { tmpin[i] = LittleEndian.Uint64(src[i*8:i*8+8]) } *)
LoadBlock(tmpin, src, uintLen) ==
  [i \in 1..Len(tmpin) |-> IF i <= uintLen THEN Uint64LE(src, (i - 1) * 8) ELSE tmpin[i]]

(* the store loop clearing the bytes of dst after the block *)
StoreBlockClearing(dst, tmpout, uintLen) ==
  [j \in 1..Len(dst) |->
     IF j <= 8 * uintLen THEN PutUint64LE(tmpout[((j - 1) \div 8) + 1])[((j - 1) % 8) + 1]
     ELSE 0]

(* the loop  for i := 0; i < uintLen; i++ { LittleEndian.PutUint64(dst[i*8:i*8+8], tmpout[i]) } *)
StoreBlock(dst, tmpout, uintLen) ==
  [j \in 1..Len(dst) |->
     IF j <= 8 * uintLen THEN PutUint64LE(tmpout[((j - 1) \div 8) + 1])[((j - 1) % 8) + 1]
     ELSE dst[j]]

(* Encrypt with the expanded key as its tmpout *)
EncryptResultScratchInKey(ci, dst, src) ==
  LET uintLen == ci.stateSize \div 64
      tmpin == LoadBlock(getTempData(ci.internal)[1], src, uintLen)
      after[tmpout \in Seq(Word64)] ==
        <<[ci EXCEPT !.internal.tmpData1 = tmpin,
                     !.internal.expanedKey = SubSeq(tmpout, 1, Len(tmpin)) \o <<Zero64>>],
          StoreBlock(dst, tmpout, uintLen)>>
  IN  after[encrypt(ci.internal, tmpin, ci.internal.expanedKey)]

(* func (c *Cipher) Encrypt(dst, src []byte): <<the Cipher afterwards, dst afterwards>> *)
EncryptResult(ci, dst, src) ==
  LET uintLen == ci.stateSize \div 64
      tmpin == LoadBlock(getTempData(ci.internal)[1], src, uintLen)
      after[tmpout \in Seq(Word64)] ==
        <<[ci EXCEPT !.internal.tmpData1 = tmpin, !.internal.tmpData2 = tmpout],
          StoreBlock(dst, tmpout, uintLen)>>
  IN  after[encrypt(ci.internal, tmpin, getTempData(ci.internal)[2])]

(* func (c *Cipher) Decrypt(dst, src []byte): <<the Cipher afterwards, dst afterwards>> *)
DecryptResult(ci, dst, src) ==
  LET uintLen == ci.stateSize \div 64
      tmpin == LoadBlock(getTempData(ci.internal)[1], src, uintLen)
      after[tmpout \in Seq(Word64)] ==
        <<[ci EXCEPT !.internal.tmpData1 = tmpin, !.internal.tmpData2 = tmpout],
          StoreBlock(dst, tmpout, uintLen)>>
  IN  after[decrypt(ci.internal, tmpin, getTempData(ci.internal)[2])]

(* func (c *Cipher) Encrypt64(dst, src []uint64): dst afterwards *)
Encrypt64Result(ci, dst, src) == encrypt(ci.internal, src, dst)

(* func (c *Cipher) Decrypt64(dst, src []uint64): dst afterwards *)
Decrypt64Result(ci, dst, src) == decrypt(ci.internal, src, dst)

----------------------------------------------------------------------------
(* The inputs the client draws from *)

(* how many different blocks the client encrypts and decrypts *)
NumBlocks == 2

(* key material of n bytes *)
KeyBytes(n) == [j \in 1..n |-> (j * 73 + 19) % 256]

(* the same key material as n words *)
KeyWords(n) == [i \in 1..n |-> Uint64LE(KeyBytes(8 * n), (i - 1) * 8)]

(* another key of n words, for SetKey *)
ReKey(n) == [i \in 1..n |-> <<(i * 4099) % W16, 65535, (i * 257) % W16, 65535 - i>>]

Tweak1 == <<<<513, 1027, 1541, 2055>>, <<65535, 65535, 65535, 65535>>>>
ShortTweak == <<<<43690, 21845, 43690, 21845>>>>

KeyByteLens == {32, 64, 128, 33, 63, 100}
KeyWordLens == {4, 8, 16, 3, 5}
CipherSizes == {256, 512, 1024, 128, 0}
CtorTweaks == {NilSlice, Slice(Tweak1)}
SetTweaks == {NilSlice, Slice(Tweak1), Slice(ShortTweak)}

(* block k of n words, as bytes and as words *)
BlockBytes(n, k) == [j \in 1..(8 * n) |-> (j * 37 + k * 101 + 140) % 256]
BlockWords(n, k) == [i \in 1..n |-> Uint64LE(BlockBytes(n, k), (i - 1) * 8)]

(* the caller's dst before the call *)
DstBytes(n) == [j \in 1..(8 * n) |-> 170]
DstWords(n) == [i \in 1..n |-> <<43690, 43690, 43690, 43690>>]

(* N of the instance: the words of one block *)
QWords(ci) == ci.internal.type \div 64

----------------------------------------------------------------------------
(* The client: one call at a time, then it takes the results and goes on *)

(* the names of the instances on the heap, and the goroutines *)
Instances == {"A", "B"}
Goroutines == {1, 2}

(* a goroutine that is in no call *)
NoGo ==
  [pc |-> "idle", op |-> "idle", inst |-> "none", buf0 |-> <<>>, buf |-> <<>>,
   s |-> 0, d |-> 0, b |-> <<>>, tf |-> [type |-> 0], overlap |-> {}, calls |-> 0]

(* no call run statement by statement *)
NoEng ==
  [phase |-> "idle", op |-> "idle", ci |-> NilCipher, s |-> 0, d |-> 0,
   buf0 |-> <<>>, buf |-> <<>>, tmpin |-> <<>>, pc |-> <<0, 0, 0>>,
   b |-> <<>>, tmp |-> Zero64, output |-> <<>>, mixes |-> <<>>, inj |-> <<>>,
   rows |-> <<>>, n |-> 0]

(* the states of the katScanner *)
Start == 0
Message == 1
Result == 2
MacKeyHeader == 3
MacKey == 4
Done == 5

(* new(katResult): restOfLine is kept as the set of the words "Tree" and
   "MAC" it contains *)
katResult ==
  [stateSize |-> 0, hashBitLength |-> 0, msgLength |-> 0, msg |-> <<>>, msgFill |-> 0,
   result |-> <<>>, resultFill |-> 0, macKeyLen |-> 0, macKey |-> <<>>, macKeyFill |-> 0,
   restOfLine |-> {}]

(* the test program before setUp *)
NoKat ==
  [pc |-> "closed", file |-> <<>>, pos |-> 1, state |-> Start, kr |-> katResult,
   dataFound |-> FALSE, tree |-> 0, mac |-> 0, normal |-> 0, ret |-> FALSE,
   from |-> 1, log |-> <<>>, hashed |-> <<>>]

Init ==
  /\ c = NilCipher
  /\ call = NoCall
  /\ heap = [x \in Instances |-> NilCipher]
  /\ gs = [g \in Goroutines |-> NoGo]
  /\ eng = NoEng
  /\ kat = NoKat

Idle == call.op = "idle"

NewCipher(key, tweak) ==
  /\ Idle /\ c.isNil
  /\ LET r == NewCipherResult(key, tweak)
     IN  /\ c' = r[1]
         /\ call' = [NoCall EXCEPT !.op = "NewCipher", !.key = key, !.tweak = tweak,
                                   !.err = r[2]]
  /\ UNCHANGED <<goVars, eng, kat>>

NewCipher64(key, tweak) ==
  /\ Idle /\ c.isNil
  /\ LET r == NewCipher64Result(key, tweak)
     IN  /\ c' = r[1]
         /\ call' = [NoCall EXCEPT !.op = "NewCipher64", !.key = key, !.tweak = tweak,
                                   !.err = r[2]]
  /\ UNCHANGED <<goVars, eng, kat>>

NewCipherSize(size) ==
  /\ Idle /\ c.isNil
  /\ LET r == NewCipherSizeResult(size)
     IN  /\ c' = r[1]
         /\ call' = [NoCall EXCEPT !.op = "NewCipherSize", !.size = size, !.err = r[2]]
  /\ UNCHANGED <<goVars, eng, kat>>

BlockSize ==
  /\ Idle /\ ~c.isNil
  /\ call' = [NoCall EXCEPT !.op = "BlockSize", !.ret = BlockSizeOf(c)]
  /\ UNCHANGED c
  /\ UNCHANGED <<goVars, eng, kat>>

Encrypt(dst, src) ==
  /\ Idle /\ ~c.isNil
  /\ \E r \in {EncryptResult(c, dst, src)} :
         /\ c' = r[1]
         /\ call' = [NoCall EXCEPT !.op = "Encrypt", !.src = src, !.dst = r[2]]
  /\ UNCHANGED <<goVars, eng, kat>>

Decrypt(dst, src) ==
  /\ Idle /\ ~c.isNil
  /\ \E r \in {DecryptResult(c, dst, src)} :
         /\ c' = r[1]
         /\ call' = [NoCall EXCEPT !.op = "Decrypt", !.src = src, !.dst = r[2]]
  /\ UNCHANGED <<goVars, eng, kat>>

Encrypt64(dst, src) ==
  /\ Idle /\ ~c.isNil
  /\ call' = [NoCall EXCEPT !.op = "Encrypt64", !.src = src,
                            !.dst = Encrypt64Result(c, dst, src)]
  /\ UNCHANGED c
  /\ UNCHANGED <<goVars, eng, kat>>

Decrypt64(dst, src) ==
  /\ Idle /\ ~c.isNil
  /\ call' = [NoCall EXCEPT !.op = "Decrypt64", !.src = src,
                            !.dst = Decrypt64Result(c, dst, src)]
  /\ UNCHANGED c
  /\ UNCHANGED <<goVars, eng, kat>>

(* func (c *Cipher) SetTweak(tweak []uint64) *)
SetTweak(tweak) ==
  /\ Idle /\ ~c.isNil
  /\ c' = [c EXCEPT !.internal = internalSetTweak(c.internal, tweak)]
  /\ call' = [NoCall EXCEPT !.op = "SetTweak", !.tweak = tweak,
                            !.panic = setTweakPanics(tweak)]
  /\ UNCHANGED <<goVars, eng, kat>>

(* func (c *Cipher) SetKey(key []uint64) *)
SetKey(key) ==
  /\ Idle /\ ~c.isNil
  /\ c' = [c EXCEPT !.internal = internalSetKey(c.internal, key)]
  /\ call' = [NoCall EXCEPT !.op = "SetKey", !.key = key,
                            !.panic = setKeyPanics(key.data, c.internal.expanedKey)]
  /\ UNCHANGED <<goVars, eng, kat>>

(* the client has the results of the call; a panic ended the program *)
Return ==
  /\ ~Idle /\ ~call.panic
  /\ call' = NoCall
  /\ UNCHANGED c
  /\ UNCHANGED <<goVars, eng, kat>>

Next ==
  \/ \E n \in KeyByteLens, t \in CtorTweaks : NewCipher(Slice(KeyBytes(n)), t)
  \/ \E n \in KeyWordLens, t \in CtorTweaks : NewCipher64(Slice(KeyWords(n)), t)
  \/ \E size \in CipherSizes : NewCipherSize(size)
  \/ BlockSize
  \/ \E k \in 1..NumBlocks : Encrypt(DstBytes(QWords(c)), BlockBytes(QWords(c), k))
  \/ \E k \in 1..NumBlocks : Decrypt(DstBytes(QWords(c)), BlockBytes(QWords(c), k))
  \/ \E k \in 1..NumBlocks : Encrypt64(DstWords(QWords(c)), BlockWords(QWords(c), k))
  \/ \E k \in 1..NumBlocks : Decrypt64(DstWords(QWords(c)), BlockWords(QWords(c), k))
  \/ \E t \in SetTweaks : SetTweak(t)
  \/ \E d \in {0, 1, -1} : SetKey(Slice(ReKey(QWords(c) + d)))
  \/ Return

Spec == Init /\ [][Next]_vars


----------------------------------------------------------------------------
(* Goroutines calling into the instances of the heap.  A call into Encrypt,  *)
(* Decrypt, Encrypt64 or Decrypt64 runs in the steps of its code: the load   *)
(* loop, the loads of the input words and of the key and tweak words at the  *)
(* head of encrypt, the rounds with the stores to output, the store loop.    *)
(* Another goroutine may run between any two of them.                         *)

(* how many calls into instances one goroutine makes *)
MaxCalls == 1

CryptOps == {"Encrypt", "Decrypt", "Encrypt64", "Decrypt64"}
ByteOps == {"Encrypt", "Decrypt"}

(* a second tweak, for SetTweak *)
Tweak2 == <<<<1, 2, 3, 4>>, <<5, 6, 7, 8>>>>

(* the arguments instance x is constructed with: <<key bytes, tweak>> *)
GoCtorArgs(x) == IF x = "A" THEN <<32, Slice(Tweak1)>> ELSE <<64, NilSlice>>

(* the goroutine is between the first and the last step of a call *)
InCall(g) == gs[g].pc \notin {"idle", "done"}

(* the array both slices of goroutine g's call point into: 2 blocks of n
   words, as bytes for the byte form and as words for the word form *)
GoBuffer(g, op, n) ==
  IF op \in ByteOps THEN BlockBytes(2 * n, g) ELSE BlockWords(2 * n, g)

(* the offset of dst in that array, in bytes or in words: src is the first
   block of the array and dst the second *)
GoDst(op, n) == IF op \in ByteOps THEN 8 * n ELSE n

(* a[off:], the slice of array a from offset off *)
SliceFrom(a, off) == SubSeq(a, off + 1, Len(a))

(* the stores going through the array instead of the slice a[off:] *)
WriteBackAtStart(a, off, sl) == sl \o SubSeq(a, Len(sl) + 1, Len(a))

(* the array a after the slice a[off:] has become sl *)
WriteBack(a, off, sl) == SubSeq(a, 1, off) \o sl

(* the goroutines after g has begun the call rec on instance rec.inst: the
   calls under way take note of each other *)
Begin(g, rec) ==
  [h \in Goroutines |->
     IF h = g
     THEN [rec EXCEPT !.overlap = {[op |-> gs[k].op, same |-> gs[k].inst = rec.inst] :
                             k \in {k \in Goroutines \ {g} : InCall(k)}}]
     ELSE IF InCall(h)
          THEN [gs[h] EXCEPT !.overlap = @ \cup {[op |-> rec.op, same |-> gs[h].inst = rec.inst]}]
          ELSE gs[h]]

(* tmpin and tmpout of instance x: the slices getTempData returns are the
   arrays of the instance itself *)
PutTmpInEverywhere(hp, x, tmpin) ==
  [y \in Instances |-> IF hp[y].isNil THEN hp[y]
                       ELSE [hp[y] EXCEPT !.internal.tmpData1 = tmpin]]
PutTmpIn(hp, x, tmpin) == [hp EXCEPT ![x].internal.tmpData1 = tmpin]
PutTmpOut(hp, x, tmpout) == [hp EXCEPT ![x].internal.tmpData2 = tmpout]

(* go NewCipher(key, tweak): the new instance becomes x *)
GoNewCipher(g, x, key, tweak) ==
  /\ gs[g].pc = "idle"
  /\ heap[x].isNil
  /\ heap' = [heap EXCEPT ![x] = NewCipherResult(key, tweak)[1]]
  /\ gs' = Begin(g, [NoGo EXCEPT !.pc = "done", !.op = "NewCipher", !.inst = x,
                                 !.calls = gs[g].calls])
  /\ UNCHANGED <<clientVars, eng, kat>>

(* go x.SetKey(key) *)
GoSetKey(g, x, key) ==
  /\ gs[g].pc = "idle" /\ gs[g].calls < MaxCalls
  /\ ~heap[x].isNil
  /\ heap' = [heap EXCEPT ![x].internal = internalSetKey(@, key)]
  /\ gs' = Begin(g, [NoGo EXCEPT !.pc = "done", !.op = "SetKey", !.inst = x,
                                 !.calls = gs[g].calls + 1])
  /\ UNCHANGED <<clientVars, eng, kat>>

(* go x.SetTweak(tweak) *)
GoSetTweak(g, x, tweak) ==
  /\ gs[g].pc = "idle" /\ gs[g].calls < MaxCalls
  /\ ~heap[x].isNil
  /\ heap' = [heap EXCEPT ![x].internal = internalSetTweak(@, tweak)]
  /\ gs' = Begin(g, [NoGo EXCEPT !.pc = "done", !.op = "SetTweak", !.inst = x,
                                 !.calls = gs[g].calls + 1])
  /\ UNCHANGED <<clientVars, eng, kat>>

(* go x.Encrypt(dst, src), x.Decrypt, x.Encrypt64 or x.Decrypt64 with
   src = buf[0:] and dst = buf[d:]: the call is entered *)
GoCall(g, op, x) ==
  /\ gs[g].pc = "idle" /\ gs[g].calls < MaxCalls
  /\ ~heap[x].isNil
  /\ gs' = Begin(g, [NoGo EXCEPT !.pc = IF op \in ByteOps THEN "load" ELSE "read",
                                 !.op = op, !.inst = x, !.s = 0,
                                 !.d = GoDst(op, QWords(heap[x])),
                                 !.buf0 = GoBuffer(g, op, QWords(heap[x])),
                                 !.buf = GoBuffer(g, op, QWords(heap[x])),
                                 !.calls = gs[g].calls + 1])
  /\ UNCHANGED <<heap, clientVars, eng, kat>>

(* Encrypt, Decrypt: the loop that loads src into tmpin *)
GoLoad(g) ==
  /\ gs[g].pc = "load"
  /\ LET x == gs[g].inst
     IN  heap' = PutTmpIn(heap, x,
                   LoadBlock(getTempData(heap[x].internal)[1],
                             SliceFrom(gs[g].buf, gs[g].s), heap[x].stateSize \div 64))
  /\ gs' = [gs EXCEPT ![g].pc = "read"]
  /\ UNCHANGED <<clientVars, eng, kat>>

(* encrypt, decrypt: b0 := input[0] .., k0 := tf.expanedKey[0] .., t0 := .. *)
GoRead(g) ==
  /\ gs[g].pc = "read"
  /\ LET x == gs[g].inst
         input == IF gs[g].op \in ByteOps THEN getTempData(heap[x].internal)[1]
                  ELSE SliceFrom(gs[g].buf, gs[g].s)
     IN  gs' = [gs EXCEPT ![g].pc = "write",
                          ![g].b = SubSeq(input, 1, QWords(heap[x])),
                          ![g].tf = heap[x].internal]
  /\ UNCHANGED <<heap, clientVars, eng, kat>>

(* encrypt, decrypt: the rounds, and output[0] = .., output[1] = .. *)
GoWrite(g) ==
  /\ gs[g].pc = "write"
  /\ LET x == gs[g].inst
         output == IF gs[g].op \in ByteOps THEN getTempData(heap[x].internal)[2]
                   ELSE SliceFrom(gs[g].buf, gs[g].d)
         done[out \in Seq(Word64)] ==
           IF gs[g].op \in ByteOps
           THEN /\ heap' = PutTmpOut(heap, x, out)
                /\ gs' = [gs EXCEPT ![g].pc = "store"]
           ELSE /\ heap' = heap
                /\ gs' = [gs EXCEPT ![g].pc = "done",
                                    ![g].buf = WriteBack(@, gs[g].d, out)]
     IN  done[IF gs[g].op \in {"Encrypt", "Encrypt64"}
              THEN encrypt(gs[g].tf, gs[g].b, output)
              ELSE decrypt(gs[g].tf, gs[g].b, output)]
  /\ UNCHANGED <<clientVars, eng, kat>>

(* Encrypt, Decrypt: the loop that stores tmpout into dst *)
GoStore(g) ==
  /\ gs[g].pc = "store"
  /\ LET x == gs[g].inst
     IN  gs' = [gs EXCEPT ![g].pc = "done",
                          ![g].buf = WriteBack(@, gs[g].d,
                                       StoreBlock(SliceFrom(gs[g].buf, gs[g].d),
                                                  getTempData(heap[x].internal)[2],
                                                  heap[x].stateSize \div 64))]
  /\ UNCHANGED <<heap, clientVars, eng, kat>>

(* the call returns *)
GoReturn(g) ==
  /\ gs[g].pc = "done"
  /\ gs' = [gs EXCEPT ![g] = [NoGo EXCEPT !.calls = gs[g].calls]]
  /\ UNCHANGED <<heap, clientVars, eng, kat>>

GoNext ==
  \/ \E g \in Goroutines, x \in Instances :
       GoNewCipher(g, x, Slice(KeyBytes(GoCtorArgs(x)[1])), GoCtorArgs(x)[2])
  \/ \E g \in Goroutines, x \in Instances : GoSetKey(g, x, Slice(ReKey(QWords(heap[x]))))
  \/ \E g \in Goroutines, x \in Instances : GoSetTweak(g, x, Slice(Tweak2))
  \/ \E g \in Goroutines, x \in Instances, op \in CryptOps : GoCall(g, op, x)
  \/ \E g \in Goroutines : GoLoad(g)
  \/ \E g \in Goroutines : GoRead(g)
  \/ \E g \in Goroutines : GoWrite(g)
  \/ \E g \in Goroutines : GoStore(g)
  \/ \E g \in Goroutines : GoReturn(g)

GoSpec == Init /\ [][GoNext]_vars

----------------------------------------------------------------------------
(* One call of Encrypt, Decrypt, Encrypt64 or Decrypt64 run statement by      *)
(* statement, its src and dst slices of one array of the caller.              *)

(* the instances the calls run on *)
EngInstances ==
  {NewCipherResult(Slice(KeyBytes(32)), Slice(Tweak1))[1],
   NewCipherResult(Slice(KeyBytes(64)), Slice(Tweak1))[1],
   NewCipherResult(Slice(KeyBytes(128)), Slice(Tweak1))[1],
   NewCipherResult(Slice([j \in 1..32 |-> 0]), Slice(<<Zero64, Zero64>>))[1],
   NewCipher64Result(Slice(KeyWords(4)), Slice(Tweak1))[1]}

(* the caller's array of 2 blocks of n words: all zero for k = 0 *)
EngBuffer(op, n, k) ==
  IF op \in ByteOps
  THEN [j \in 1..(16 * n) |-> IF k = 0 THEN 0 ELSE BlockBytes(2 * n, k)[j]]
  ELSE [i \in 1..(2 * n) |-> IF k = 0 THEN Zero64 ELSE BlockWords(2 * n, k)[i]]

(* the offsets <<s, d>> of src and dst in that array, in bytes or in words:
   apart, the same slice, dst one word ahead, dst one word behind, and for
   bytes dst three bytes ahead *)
EngSlices(op, n) ==
  IF op \in ByteOps THEN {<<0, 8 * n>>, <<0, 0>>, <<0, 8>>, <<8, 0>>, <<0, 3>>}
  ELSE {<<0, n>>, <<0, 0>>, <<0, 1>>, <<1, 0>>}

(* CodeOf with Threefish-1024 running the statements of Threefish-512 *)
CodeOfMisdispatched(op, type) ==
  IF op \in {"Encrypt", "Encrypt64"}
  THEN CASE type = CIPHER_SIZE_256 -> encrypt256Code
         [] type = CIPHER_SIZE_512 -> encrypt512Code
         [] type = CIPHER_SIZE_1024 -> encrypt512Code
  ELSE CASE type = CIPHER_SIZE_256 -> decrypt256Code
         [] type = CIPHER_SIZE_512 -> decrypt512Code
         [] type = CIPHER_SIZE_1024 -> decrypt512Code

(* the statements of the function the call runs *)
CodeOf(op, type) ==
  IF op \in {"Encrypt", "Encrypt64"}
  THEN CASE type = CIPHER_SIZE_256 -> encrypt256Code
         [] type = CIPHER_SIZE_512 -> encrypt512Code
         [] type = CIPHER_SIZE_1024 -> encrypt1024Code
  ELSE CASE type = CIPHER_SIZE_256 -> decrypt256Code
         [] type = CIPHER_SIZE_512 -> decrypt512Code
         [] type = CIPHER_SIZE_1024 -> decrypt1024Code

(* the end of the statements *)
EndPc == <<0, 0, 0>>

(* control going from the second group of lines on to the fourth *)
NextPcSkipping(code, pc) ==
  IF pc[3] < Len(code[pc[1]][pc[2]]) THEN <<pc[1], pc[2], pc[3] + 1>>
  ELSE IF pc[2] < Len(code[pc[1]]) THEN <<pc[1], pc[2] + 1, 1>>
  ELSE IF pc[1] = 2 THEN <<4, 1, 1>>
  ELSE IF pc[1] < Len(code) THEN <<pc[1] + 1, 1, 1>>
  ELSE EndPc

(* control leaving out the sum that follows when the word just written is zero *)
NextPcBranching(code, pc) ==
  LET next == IF pc[3] < Len(code[pc[1]][pc[2]]) THEN <<pc[1], pc[2], pc[3] + 1>>
              ELSE IF pc[2] < Len(code[pc[1]]) THEN <<pc[1], pc[2] + 1, 1>>
              ELSE IF pc[1] < Len(code) THEN <<pc[1] + 1, 1, 1>>
              ELSE <<0, 0, 0>>
      st == code[pc[1]][pc[2]][pc[3]]
      skip == /\ st[1] = "rotl^"
              /\ next # <<0, 0, 0>>
              /\ code[next[1]][next[2]][next[3]][1] = "+="
              /\ Xor64(RotL(eng.b[st[2] + 1], st[3]), eng.b[st[4] + 1]) = Zero64
  IN  IF ~skip THEN next
      ELSE IF next[3] < Len(code[next[1]][next[2]]) THEN <<next[1], next[2], next[3] + 1>>
      ELSE IF next[2] < Len(code[next[1]]) THEN <<next[1], next[2] + 1, 1>>
      ELSE IF next[1] < Len(code) THEN <<next[1] + 1, 1, 1>>
      ELSE <<0, 0, 0>>

(* the statement after the one at pc: straight-line code *)
NextPc(code, pc) ==
  IF pc[3] < Len(code[pc[1]][pc[2]]) THEN <<pc[1], pc[2], pc[3] + 1>>
  ELSE IF pc[2] < Len(code[pc[1]]) THEN <<pc[1], pc[2] + 1, 1>>
  ELSE IF pc[1] < Len(code) THEN <<pc[1] + 1, 1, 1>>
  ELSE EndPc

(* the statement about to run *)
EngStmt == CodeOf(eng.op, eng.ci.internal.type)[eng.pc[1]][eng.pc[2]][eng.pc[3]]

(* the terms of a sum that are key words, and the others *)
IsKey(t) == t[1] = "k"
NotKey(t) == t[1] # "k"
HasKey(terms) == \E n \in 1..Len(terms) : IsKey(terms[n])

(* the statement at pc rotates a word: the second half of a MIX, the first
   half of its inverse *)
IsRotate(st) == st[1] \in {"rotl^", "rotr"}

(* <<the word rotated, the rotation, the other word of the pair>> of the
   rotate statement at pc; in decrypt the other word is the one of the
   tmp = b_i ^ b_j before it on the line *)
MixOf(code, pc) ==
  LET st == code[pc[1]][pc[2]][pc[3]]
  IN  IF st[1] = "rotl^" THEN <<st[2], st[3], st[4]>>
      ELSE <<st[2], st[3], code[pc[1]][pc[2]][pc[3] - 1][3]>>

(* the call is entered; Encrypt and Decrypt take uintLen and the temp buffers
   and run the loop that loads src into tmpin *)
EngCall(ci, op, k, s, d) ==
  /\ eng.phase = "idle"
  /\ LET n == QWords(ci)
         buf == EngBuffer(op, n, k)
     IN  eng' = [NoEng EXCEPT
                   !.phase = "entered", !.op = op, !.ci = ci, !.s = s, !.d = d,
                   !.buf0 = buf, !.buf = buf,
                   !.tmpin = IF op \in ByteOps
                             THEN LoadBlock(getTempData(ci.internal)[1], SliceFrom(buf, s),
                                            ci.stateSize \div 64)
                             ELSE getTempData(ci.internal)[1],
                   !.output = IF op \in ByteOps THEN getTempData(ci.internal)[2]
                              ELSE SliceFrom(buf, d),
                   !.mixes = [w \in 1..n |-> 0], !.inj = [w \in 1..n |-> 0]]
  /\ UNCHANGED <<clientVars, goVars, kat>>

(* encrypt, decrypt: b0 := input[0] .., with the key and tweak words *)
EngLoadInput ==
  /\ eng.phase = "entered"
  /\ LET input == IF eng.op \in ByteOps THEN eng.tmpin ELSE SliceFrom(eng.buf, eng.s)
     IN  eng' = [eng EXCEPT !.phase = "run", !.pc = <<1, 1, 1>>,
                            !.b = SubSeq(input, 1, QWords(eng.ci))]
  /\ UNCHANGED <<clientVars, goVars, kat>>

(* one statement of encrypt or decrypt; a store to output reaches the array
   behind dst at once.  mixes counts the MIX steps (in decrypt their
   inverses) each word has been in, inj the sums with a key word each word
   has received, n the statements run, and rows keeps for every round, in
   the order of the source lines, <<the word rotated, the rotation, the
   other word>> of its rotate statements. *)
EngStep ==
  /\ eng.phase = "run"
  /\ LET code == CodeOf(eng.op, eng.ci.internal.type)
         st == EngStmt
         l == Exec(eng.ci.internal, st,
                   [b |-> eng.b, tmp |-> eng.tmp, output |-> eng.output])
         pc == NextPc(code, eng.pc)
         m == MixOf(code, eng.pc)
         d == eng.mixes[m[1] + 1]
     IN  eng' = [eng EXCEPT
                   !.b = l.b, !.tmp = l.tmp, !.output = l.output,
                   !.buf = IF eng.op \in ByteOps THEN @ ELSE WriteBack(@, eng.d, l.output),
                   !.pc = pc,
                   !.phase = IF pc = EndPc THEN "store" ELSE "run",
                   !.n = @ + 1,
                   !.mixes = IF IsRotate(st)
                             THEN [@ EXCEPT ![m[1] + 1] = @ + 1, ![m[3] + 1] = @ + 1]
                             ELSE @,
                   !.rows = IF ~IsRotate(st) THEN @
                            ELSE IF d + 1 > Len(@) THEN Append(@, <<m>>)
                            ELSE [@ EXCEPT ![d + 1] = Append(@, m)],
                   !.inj = IF st[1] \in {"+=", "out"} /\ HasKey(st[3])
                           THEN [@ EXCEPT ![st[2] + 1] = @ + 1]
                           ELSE @]
  /\ UNCHANGED <<clientVars, goVars, kat>>

(* Encrypt and Decrypt run the loop that stores tmpout into dst *)
EngStore ==
  /\ eng.phase = "store"
  /\ eng' = [eng EXCEPT
               !.phase = "done",
               !.buf = IF eng.op \in ByteOps
                       THEN WriteBack(@, eng.d,
                              StoreBlock(SliceFrom(@, eng.d), eng.output,
                                         eng.ci.stateSize \div 64))
                       ELSE @]
  /\ UNCHANGED <<clientVars, goVars, kat>>

(* the call returns *)
EngReturn ==
  /\ eng.phase = "done"
  /\ eng' = NoEng
  /\ UNCHANGED <<clientVars, goVars, kat>>

EngNext ==
  \/ \E ci \in EngInstances, op \in CryptOps, k \in {0, 1} :
       \E sd \in EngSlices(op, QWords(ci)) : EngCall(ci, op, k, sd[1], sd[2])
  \/ EngLoadInput
  \/ EngStep
  \/ EngStore
  \/ EngReturn

EngSpec == Init /\ [][EngNext]_vars
----------------------------------------------------------------------------
(* The test program, go/src/cmd/test/SkeinTest.go: the katScanner reads the   *)
(* file of known-answer vectors line by line and checkKATVectors hashes each  *)
(* record it delivers.                                                       *)
(*                                                                         *)
(* A line of the file, after strings.TrimSpace, is [p, head, n, bytes, nl]:    *)
(* p the prefix the scanner can tell it by ("" for a line of at most one      *)
(* character, "hex" for a line of hex bytes, "other" for anything else);      *)
(* head, n and bytes what the Sscanf of a header line, of a MAC key line and  *)
(* of a line of hex bytes reads from it; nl whether the line ends with the    *)
(* newline ReadString looks for.                                             *)

NoHead == [stateSize |-> 0, hashBitLength |-> 0, msgLength |-> 0, rest |-> {}]
Line(p) == [p |-> p, head |-> NoHead, n |-> 0, bytes |-> <<>>, nl |-> TRUE]

(* strings.HasPrefix(line, prefix), for the prefixes parseLines asks for *)
HasPrefix(line, prefix) == line.p = prefix

(* the bytes of a field of n bits: n >> 3, one more when n % 8 != 0 *)
ByteLen(n) == (n \div 8) + (IF n % 8 # 0 THEN 1 ELSE 0)

(* skein.NewSkein(stateSize, hashBitLength), UpdateBits(msg, 0, msgLength),
   DoFinal(): the package crypto/skein is not part of these sources, so the
   hash is some function of the state size, the hash length and the message
   bits, with bytes in 1..251 *)
Hash(kr) ==
  LET RECURSIVE SumBytes(_, _)
      SumBytes(s, n) == IF n = 0 THEN 0 ELSE s[n] + SumBytes(s, n - 1)
  IN  [i \in 1..ByteLen(kr.hashBitLength) |->
         ((kr.stateSize + 3 * SumBytes(kr.msg, ByteLen(kr.msgLength)) + 7 * i) % 251) + 1]

(* func (s *katScanner) parseHeaderLine(line, kr): kr afterwards *)
parseHeaderLine(line, kr) ==
  LET h == [kr EXCEPT !.stateSize = line.head.stateSize,
                      !.hashBitLength = line.head.hashBitLength,
                      !.msgLength = line.head.msgLength,
                      !.restOfLine = line.head.rest]
  IN  [h EXCEPT !.msg = IF h.msgLength > 0 THEN [i \in 1..ByteLen(h.msgLength) |-> 0] ELSE @,
                !.result = [i \in 1..ByteLen(h.hashBitLength) |-> 0],
                !.msgFill = 0, !.resultFill = 0, !.macKeyFill = 0]

(* the bytes Sscanf reads from the line with "%x%x ..": those of a line of
   hex bytes, none from any other line *)
HexBytes(line) == IF line.p = "hex" THEN line.bytes ELSE <<>>

(* the loop  for i := 0; i < ret; i++ { buf[fill] = byte(d[i]); fill++ }:
   <<buf, fill, whether buf[fill] ran out of range>> *)
RECURSIVE FillFrom(_, _, _, _)
FillFrom(buf, fill, d, i) ==
  IF i > Len(d) THEN <<buf, fill, FALSE>>
  ELSE IF fill >= Len(buf) THEN <<buf, fill, TRUE>>
  ELSE FillFrom([buf EXCEPT ![fill + 1] = d[i]], fill + 1, d, i + 1)

(* func (s *katScanner) parseLines(line, kr):
   [state, kr, exit, panic] afterwards *)
parseLines(state, line, kr) ==
  LET to(st) == [state |-> st, kr |-> kr, exit |-> FALSE, panic |-> FALSE]
      st1 == IF HasPrefix(line, "MAC") THEN MacKeyHeader ELSE state
      filled(field, fill, r) ==
        [state |-> st1, exit |-> FALSE, panic |-> r[3],
         kr |-> [[kr EXCEPT ![field] = r[1]] EXCEPT ![fill] = r[2]]]
  IN  IF line.p = "" THEN to(state)
      ELSE IF HasPrefix(line, "Message") THEN to(Message)
      ELSE IF HasPrefix(line, "Result") THEN to(Result)
      ELSE IF HasPrefix(line, "------") THEN to(Done)
      ELSE CASE st1 = Start ->
                  IF HasPrefix(line, ":Skein-")
                  THEN [to(st1) EXCEPT !.kr = parseHeaderLine(line, kr)]
                  ELSE [to(st1) EXCEPT !.exit = TRUE]
             [] st1 = Message ->
                  IF line.p = "(none)" THEN to(st1)
                  ELSE filled("msg", "msgFill", FillFrom(kr.msg, kr.msgFill, HexBytes(line), 1))
             [] st1 = Result ->
                  filled("result", "resultFill",
                         FillFrom(kr.result, kr.resultFill, HexBytes(line), 1))
             [] st1 = MacKey ->
                  IF line.p = "(none)" THEN to(st1)
                  ELSE filled("macKey", "macKeyFill",
                              FillFrom(kr.macKey, kr.macKeyFill, HexBytes(line), 1))
             [] st1 = MacKeyHeader ->
                  [to(MacKey) EXCEPT
                     !.kr = [kr EXCEPT !.macKeyLen = line.n,
                                       !.macKey = IF line.n # 0 THEN [i \in 1..line.n |-> 0]
                                                  ELSE @]]
             [] OTHER -> to(st1)

----------------------------------------------------------------------------
(* The files the test program is run on *)

(* how many records a file holds at most *)
MaxRecords == 2

(* the records: a normal one with the right result, one with a wrong result,
   one with no message, a Tree one and a MAC one with results the plain hash
   does not give, and a line that is no record at all *)
Records ==
  LET Blank == Line("")
      Separator == Line("------")
      Header(rest, msgLength) ==
        [Line(":Skein-") EXCEPT !.head = [stateSize |-> 256, hashBitLength |-> 8,
                                          msgLength |-> msgLength, rest |-> rest]]
      Hex(bytes) == [Line("hex") EXCEPT !.bytes = bytes]
      MacKeyLine(n) == [Line("MAC") EXCEPT !.n = n]
      Expected(m) == Hash([stateSize |-> 256, hashBitLength |-> 8,
                           msgLength |-> 8 * Len(m), msg |-> m])
  IN  <<
       <<Blank, Header({}, 8), Blank, Line("Message"), Hex(<<5>>), Line("Result"),
         Hex(Expected(<<5>>)), Separator>>,
       <<Header({}, 8), Line("Message"), Hex(<<6>>), Line("Result"),
         Hex(Expected(<<5>>)), Separator>>,
       <<Header({}, 0), Line("Message"), Line("(none)"), Line("Result"),
         Hex(Expected(<<>>)), Separator, Blank>>,
       <<Header({"Tree"}, 8), Line("Message"), Hex(<<5>>), Line("Result"),
         Hex(<<0>>), Separator>>,
       <<Header({"MAC"}, 8), Line("Message"), Hex(<<5>>), MacKeyLine(1), Hex(<<9>>),
         Line("Result"), Hex(<<0>>), Separator>>,
       <<Line("other")>>
      >>

(* the records s[1], .., s[n] one after the other *)
RECURSIVE Concat(_, _)
Concat(s, n) == IF n = 0 THEN <<>> ELSE Concat(s, n - 1) \o Records[s[n]]

(* the files: up to MaxRecords records, ending with the last record
   ("whole"), with a blank line after it, before the last line of the last
   record ("cut"), or in that line with no newline ("open") *)
Files ==
  LET FileOf(s, e) ==
        LET f == Concat(s, Len(s))
        IN  CASE e = "whole" -> f
              [] e = "blank" -> f \o <<Line("")>>
              [] e = "cut" -> SubSeq(f, 1, Len(f) - 1)
              [] e = "open" -> IF Len(f) = 0 THEN f ELSE [f EXCEPT ![Len(f)].nl = FALSE]
  IN  {FileOf(s, e) : s \in UNION {[1..m -> 1..Len(Records)] : m \in 0..MaxRecords},
                      e \in {"whole", "blank", "cut", "open"}}

----------------------------------------------------------------------------
(* The test program step by step.  The steps keep, next to the program's own  *)
(* state, from: the position in the file at which the fillResult under way    *)
(* began; log: for every fillResult that returned true the lines it consumed  *)
(* and kr as it left it; hashed: the entries of log a hash was computed for.  *)

(* setUp, newKatScanner and the entry of checkKATVectors: the file is open,
   the scanner in state Start, kr := new(katResult) *)
KatSetUp(file) ==
  /\ kat.pc = "closed"
  /\ kat' = [NoKat EXCEPT !.pc = "loop", !.file = file]
  /\ UNCHANGED <<clientVars, goVars, eng>>

(* for ks.fillResult(kr): fillResult is entered, dataFound := false *)
KatFillResult ==
  /\ kat.pc = "loop"
  /\ kat' = [kat EXCEPT !.pc = "fill", !.dataFound = FALSE, !.from = kat.pos]
  /\ UNCHANGED <<clientVars, goVars, eng>>

(* s.buf.ReadString('\n') gives a line and no error *)
CanRead(k) == k.pos <= Len(k.file) /\ k.file[k.pos].nl

(* one turn of the loop of fillResult that gets a line: parseLines, which may
   end the program with os.Exit(1) or an index out of range, dataFound := true *)
KatReadLine ==
  /\ kat.pc = "fill" /\ kat.state # Done /\ CanRead(kat)
  /\ LET r == parseLines(kat.state, kat.file[kat.pos], kat.kr)
     IN  kat' = [kat EXCEPT !.pos = @ + 1, !.state = r.state, !.kr = r.kr,
                            !.dataFound = IF r.exit \/ r.panic THEN @ ELSE TRUE,
                            !.pc = IF r.exit THEN "exited"
                                   ELSE IF r.panic THEN "panicked" ELSE @]
  /\ UNCHANGED <<clientVars, goVars, eng>>

(* the loop of fillResult ends, on state Done or on the error of ReadString:
   s.state = Start; return dataFound *)
KatFillReturn ==
  /\ kat.pc = "fill" /\ (kat.state = Done \/ ~CanRead(kat))
  /\ kat' = [kat EXCEPT
               !.state = Start,
               !.pc = IF kat.dataFound THEN "body" ELSE "after",
               !.log = IF kat.dataFound
                       THEN Append(@, [from |-> kat.from, to |-> kat.pos - 1, kr |-> kat.kr])
                       ELSE @]
  /\ UNCHANGED <<clientVars, goVars, eng>>

(* the body of the loop of checkKATVectors with the MAC records hashed too *)
checkBodyHashingMac(k) ==
  IF "Tree" \in k.kr.restOfLine THEN [k EXCEPT !.tree = @ + 1, !.pc = "loop"]
  ELSE IF Hash(k.kr) # k.kr.result
  THEN [k EXCEPT !.hashed = Append(@, Len(k.log)), !.pc = "returned", !.ret = FALSE]
  ELSE [k EXCEPT !.hashed = Append(@, Len(k.log)), !.normal = @ + 1, !.pc = "loop"]

(* the body of the loop of checkKATVectors: the test program afterwards *)
checkBody(k) ==
  IF "Tree" \in k.kr.restOfLine THEN [k EXCEPT !.tree = @ + 1, !.pc = "loop"]
  ELSE IF "MAC" \in k.kr.restOfLine THEN [k EXCEPT !.mac = @ + 1, !.pc = "loop"]
  ELSE IF Hash(k.kr) # k.kr.result
  THEN [k EXCEPT !.hashed = Append(@, Len(k.log)), !.pc = "returned", !.ret = FALSE]
  ELSE [k EXCEPT !.hashed = Append(@, Len(k.log)), !.normal = @ + 1, !.pc = "loop"]

(* checkKATVectors takes the record fillResult delivered *)
KatCheck ==
  /\ kat.pc = "body"
  /\ kat' = checkBody(kat)
  /\ UNCHANGED <<clientVars, goVars, eng>>

(* fillResult returned false: checkKATVectors prints the counts and returns true *)
KatFinish ==
  /\ kat.pc = "after"
  /\ kat' = [kat EXCEPT !.pc = "returned", !.ret = TRUE]
  /\ UNCHANGED <<clientVars, goVars, eng>>

KatNext ==
  \/ \E file \in Files : KatSetUp(file)
  \/ KatFillResult
  \/ KatReadLine
  \/ KatFillReturn
  \/ KatCheck
  \/ KatFinish

KatSpec == Init /\ [][KatNext]_vars


----------------------------------------------------------------------------
(* Properties *)

(* the xor of the words ws[1 .. n] *)
RECURSIVE XorAll(_, _)
XorAll(ws, n) == IF n = 0 THEN Zero64 ELSE Xor64(XorAll(ws, n - 1), ws[n])

(* the little-endian words of a byte block, and back *)
BytesToWords(bs, n) == [i \in 1..n |-> Uint64LE(bs, (i - 1) * 8)]
WordsToBytes(ws) ==
  [j \in 1..(8 * Len(ws)) |-> PutUint64LE(ws[((j - 1) \div 8) + 1])[((j - 1) % 8) + 1]]

(* the instance with the same key and tweak and its temp buffers as new *)
Fresh(ci) ==
  [ci EXCEPT !.internal.tmpData1 = Zeros(QWords(ci)),
             !.internal.tmpData2 = Zeros(QWords(ci))]

(* C1: inverse law.  When Encrypt64 has returned dst for src, Decrypt64 of that
   dst on the same instance gives src back, and when Decrypt64 has returned dst
   for src, Encrypt64 of that dst gives src back: for every variant, key and
   tweak the client reaches. *)
InverseLaw ==
  /\ (call.op = "Encrypt64" =>
        Decrypt64Result(c, DstWords(QWords(c)), call.dst) = call.src)
  /\ (call.op = "Decrypt64" =>
        Encrypt64Result(c, DstWords(QWords(c)), call.dst) = call.src)

(* a Decrypt64 of Threefish-1024 under a rekeyed key and a non-zero tweak has
   returned a block that differs from its input *)
InverseLawReached ==
  /\ call.op = "Decrypt64"
  /\ c.internal.type = CIPHER_SIZE_1024
  /\ c.internal.expanedTweak[1] # Zero64
  /\ SubSeq(c.internal.expanedKey, 1, QWords(c)) = ReKey(QWords(c))
  /\ call.dst # call.src

(* C2: key-schedule parity.  On every instance whose last SetKey did not
   panic, the last expanded-key word is KEY_SCHEDULE_CONST xor the xor of the
   expanded-key words 0 .. N-1. *)
KeyParity ==
  (~c.isNil /\ ~(call.op = "SetKey" /\ call.panic)) =>
    c.internal.expanedKey[QWords(c) + 1]
      = Xor64(KEY_SCHEDULE_CONST, XorAll(c.internal.expanedKey, QWords(c)))

(* SetKey with an N-word key has returned and the key words are in place *)
KeyParityReached ==
  /\ call.op = "SetKey" /\ ~call.panic
  /\ Len(call.key.data) = QWords(c)
  /\ SubSeq(c.internal.expanedKey, 1, QWords(c)) = call.key.data
  /\ c.internal.expanedKey[QWords(c) + 1] # KEY_SCHEDULE_CONST

(* C3: tweak-schedule parity.  On every instance whose last SetTweak did not
   panic, expanedTweak[2] = expanedTweak[0] xor expanedTweak[1]; and when
   SetTweak(t) with a 2-word t has returned, expanedTweak[0] = t[0] and
   expanedTweak[1] = t[1]. *)
TweakParity ==
  (~c.isNil /\ ~(call.op = "SetTweak" /\ call.panic)) =>
    /\ c.internal.expanedTweak[3]
         = Xor64(c.internal.expanedTweak[1], c.internal.expanedTweak[2])
    /\ (call.op = "SetTweak" /\ ~call.tweak.isNil /\ Len(call.tweak.data) = 2) =>
         /\ c.internal.expanedTweak[1] = call.tweak.data[1]
         /\ c.internal.expanedTweak[2] = call.tweak.data[2]

(* SetTweak with a 2-word tweak has returned on an instance built without one *)
TweakParityReached ==
  /\ call.op = "SetTweak" /\ ~call.panic
  /\ ~call.tweak.isNil /\ Len(call.tweak.data) = 2
  /\ c.internal.expanedTweak[3] # Zero64

(* C4: size rejection at construction.  Each constructor returns nil and the
   KeySizeError of the offending size for an unsupported size, and a cipher of
   the matching variant with no error for a supported one. *)
SizeRejection ==
  /\ call.op = "NewCipher" =>
       IF Len(call.key.data) \in {32, 64, 128}
       THEN ~c.isNil /\ call.err.isNil /\ c.internal.type = 8 * Len(call.key.data)
       ELSE c.isNil /\ call.err = KeySizeError(Len(call.key.data))
  /\ call.op = "NewCipher64" =>
       IF Len(call.key.data) \in {4, 8, 16}
       THEN ~c.isNil /\ call.err.isNil /\ c.internal.type = 64 * Len(call.key.data)
       ELSE c.isNil /\ call.err = KeySizeError(Len(call.key.data))
  /\ call.op = "NewCipherSize" =>
       IF call.size \in {256, 512, 1024}
       THEN ~c.isNil /\ call.err.isNil /\ c.internal.type = call.size
       ELSE c.isNil /\ call.err = KeySizeError(call.size)

(* NewCipher has returned for a key of 33 bytes *)
SizeRejectionReached ==
  /\ call.op = "NewCipher" /\ Len(call.key.data) = 33
  /\ c.isNil /\ call.err = KeySizeError(33)

(* C5: BlockSize() returns 32, 64 or 128, the bytes of the variant's block,
   whatever constructor built the instance. *)
BlockSizeFixed ==
  call.op = "BlockSize" => call.ret = c.internal.type \div 8

(* C6: byte form equals word form.  What Encrypt leaves in dst is the
   little-endian encoding of what Encrypt64 makes of the little-endian decoding
   of src, over all N words; the same for Decrypt and Decrypt64. *)
ByteFormIsWordForm ==
  /\ call.op = "Encrypt" =>
       call.dst = WordsToBytes(Encrypt64Result(c, DstWords(QWords(c)),
                                               BytesToWords(call.src, QWords(c))))
  /\ call.op = "Decrypt" =>
       call.dst = WordsToBytes(Decrypt64Result(c, DstWords(QWords(c)),
                                               BytesToWords(call.src, QWords(c))))

(* C7: a nil tweak is the tweak [0, 0].  When SetTweak(nil) has returned, the
   expanded tweak is [0, 0, 0]. *)
NilTweakIsZero ==
  (call.op = "SetTweak" /\ call.tweak.isNil) =>
    c.internal.expanedTweak = Zeros(EXPANDED_TWEAK_SIZE)

(* C8: rekey rejects wrong sizes.  SetKey with a key of other than N words
   returns an InvalidKeySize error, and does not panic. *)
RekeyRejectsWrongSize ==
  (call.op = "SetKey" /\ Len(call.key.data) # QWords(c)) =>
    ~call.err.isNil /\ ~call.panic

(* C9 as stated: when NewCipherSize(256 | 512 | 1024) has returned, all N+1
   expanded-key words and the expanded tweak are zero. *)
SizeOnlyAllZero ==
  (call.op = "NewCipherSize" /\ ~c.isNil) =>
    /\ c.internal.expanedKey = Zeros(QWords(c) + 1)
    /\ c.internal.expanedTweak = Zeros(EXPANDED_TWEAK_SIZE)

(* C9 amended: when NewCipherSize(256 | 512 | 1024) has returned, the
   expanded-key words 0 .. N-1 and the expanded tweak are zero and the last
   expanded-key word is KEY_SCHEDULE_CONST; and no call but SetKey changes the
   expanded key of an instance. *)
SizeOnlyZeroKey ==
  /\ [](  (call.op = "NewCipherSize" /\ ~c.isNil) =>
            /\ c.internal.expanedKey
                 = [i \in 1..(QWords(c) + 1) |->
                      IF i <= QWords(c) THEN Zero64 ELSE KEY_SCHEDULE_CONST]
            /\ c.internal.expanedTweak = Zeros(EXPANDED_TWEAK_SIZE))
  /\ [][(~c.isNil /\ call'.op # "SetKey") =>
          c'.internal.expanedKey = c.internal.expanedKey]_vars

(* an instance from NewCipherSize(512) has encrypted a block, its expanded key
   still the zero key with its parity word *)
SizeOnlyZeroKeyReached ==
  /\ call.op = "Encrypt" /\ c.internal.type = CIPHER_SIZE_512
  /\ XorAll(c.internal.expanedKey, QWords(c)) = Zero64
  /\ SubSeq(c.internal.expanedKey, 1, QWords(c)) = Zeros(QWords(c))
  /\ c.internal.expanedKey[QWords(c) + 1] = KEY_SCHEDULE_CONST
  /\ c.stateSize = CIPHER_SIZE_512

(* C10: determinism.  What Encrypt and Encrypt64 return for a block is what
   they return for it on the same key and tweak with temp buffers as new,
   whatever calls went before. *)
Determinism ==
  /\ call.op = "Encrypt" =>
       call.dst = EncryptResult(Fresh(c), DstBytes(QWords(c)), call.src)[2]
  /\ call.op = "Encrypt64" =>
       call.dst = Encrypt64Result(Fresh(c), DstWords(QWords(c)), call.src)

(* Encrypt64 of the second block has returned while the temp buffers hold the
   words an earlier byte-form call left there for the first block *)
DeterminismReached ==
  /\ call.op = "Encrypt64"
  /\ call.src = BlockWords(QWords(c), 2)
  /\ c.internal.tmpData1 = BlockWords(QWords(c), 1)
  /\ c.internal.tmpData2 # Zeros(QWords(c))

----------------------------------------------------------------------------
(* Properties of the goroutines *)

(* what the call goroutine g is in leaves in its array when it runs alone, with
   the key and tweak words it has loaded: the array it began with, the slice
   dst replaced by the result of the call on values of src and dst *)
Alone(g) ==
  LET ci == Cipher(heap[gs[g].inst].stateSize, gs[g].tf)
      src == SliceFrom(gs[g].buf0, gs[g].s)
      dst == SliceFrom(gs[g].buf0, gs[g].d)
  IN  WriteBack(gs[g].buf0, gs[g].d,
        CASE gs[g].op = "Encrypt" -> EncryptResult(ci, dst, src)[2]
          [] gs[g].op = "Decrypt" -> DecryptResult(ci, dst, src)[2]
          [] gs[g].op = "Encrypt64" -> Encrypt64Result(ci, dst, src)
          [] gs[g].op = "Decrypt64" -> Decrypt64Result(ci, dst, src))

(* the calls that ran on the same instance while the call of g was under way *)
SameInstance(g) == {o \in gs[g].overlap : o.same}

(* C11: read-only concurrent encryption is safe.  A call of Encrypt, Decrypt,
   Encrypt64 or Decrypt64 during which other calls ran on the same instance,
   all of them Encrypt, Decrypt, Encrypt64 or Decrypt64 and none SetKey or
   SetTweak, has written to its dst what it writes when it runs alone. *)
ReadOnlyConcurrentSafe ==
  \A g \in Goroutines :
    (/\ gs[g].pc = "done" /\ gs[g].op \in CryptOps
     /\ SameInstance(g) # {}
     /\ \A o \in SameInstance(g) : o.op \in CryptOps)
    => gs[g].buf = Alone(g)

(* C16: instances share no mutable state.  A step of a goroutine in a call on
   one instance (construction, SetKey, SetTweak, Encrypt, Decrypt, the word
   forms) leaves every other instance as it was: expanded key, expanded tweak,
   temp buffers; and a call during which calls ran on other instances only has
   written to its dst what it writes when it runs alone. *)
InstancesApart ==
  /\ [](\A g \in Goroutines :
          (/\ gs[g].pc = "done" /\ gs[g].op \in CryptOps
           /\ gs[g].overlap # {} /\ SameInstance(g) = {})
          => gs[g].buf = Alone(g))
  /\ [][\A g \in Goroutines :
          (gs'[g].pc # gs[g].pc /\ gs'[g].pc # "idle")
          => \A y \in Instances \ {gs'[g].inst} : heap'[y] = heap[y]]_vars

(* an Encrypt on B has changed its dst while a SetKey ran on A, whose expanded
   key now holds the new key *)
InstancesApartReached ==
  \E g \in Goroutines :
    /\ gs[g].pc = "done" /\ gs[g].op = "Encrypt" /\ gs[g].inst = "B"
    /\ [op |-> "SetKey", same |-> FALSE] \in gs[g].overlap
    /\ gs[g].buf # gs[g].buf0
    /\ ~heap["A"].isNil
    /\ SubSeq(heap["A"].internal.expanedKey, 1, QWords(heap["A"])) = ReKey(QWords(heap["A"]))

----------------------------------------------------------------------------
(* Frame properties of the client's calls *)

(* C13: key and tweak are independently replaceable.  SetTweak leaves every
   word of the expanded key as it was, SetKey leaves every word of the
   expanded tweak as it was, also when the call panics on a short argument,
   and neither changes the variant or the state size. *)
KeyTweakIndependent ==
  [][/\ call'.op = "SetTweak" =>
          /\ c'.internal.expanedKey = c.internal.expanedKey
          /\ c'.internal.type = c.internal.type /\ c'.stateSize = c.stateSize
     /\ call'.op = "SetKey" =>
          /\ c'.internal.expanedTweak = c.internal.expanedTweak
          /\ c'.internal.type = c.internal.type /\ c'.stateSize = c.stateSize]_vars

(* SetKey has put a new key into a Threefish-512 instance that holds the
   expanded non-zero tweak *)
KeyTweakIndependentReached ==
  /\ call.op = "SetKey" /\ ~call.panic
  /\ c.internal.type = CIPHER_SIZE_512
  /\ SubSeq(c.internal.expanedKey, 1, QWords(c)) = ReKey(QWords(c))
  /\ c.internal.expanedTweak = <<Tweak1[1], Tweak1[2], Xor64(Tweak1[1], Tweak1[2])>>

(* C14: key length selects the variant consistently across constructors.
   NewCipher on 32, 64 or 128 key bytes and NewCipher64 on the 4, 8 or 16
   words that are the little-endian decoding of those bytes, with the same
   tweak, give the same variant and the same expanded key of N+1 words, and
   Encrypt64 and Decrypt64 give the same output on both for every block. *)
ConstructorsAgree ==
  /\ (call.op = "NewCipher" /\ call.err.isNil) =>
       LET n == Len(call.key.data) \div 8
           w == NewCipher64Result(Slice(BytesToWords(call.key.data, n)), call.tweak)[1]
       IN  /\ ~w.isNil
           /\ w.internal.type = c.internal.type
           /\ w.internal.expanedKey = c.internal.expanedKey
           /\ \A k \in 1..NumBlocks :
                /\ Encrypt64Result(w, DstWords(n), BlockWords(n, k))
                     = Encrypt64Result(c, DstWords(n), BlockWords(n, k))
                /\ Decrypt64Result(w, DstWords(n), BlockWords(n, k))
                     = Decrypt64Result(c, DstWords(n), BlockWords(n, k))
  /\ (call.op = "NewCipher64" /\ call.err.isNil) =>
       LET n == Len(call.key.data)
           w == NewCipherResult(Slice(WordsToBytes(call.key.data)), call.tweak)[1]
       IN  /\ ~w.isNil
           /\ w.internal.type = c.internal.type
           /\ w.internal.expanedKey = c.internal.expanedKey
           /\ \A k \in 1..NumBlocks :
                /\ Encrypt64Result(w, DstWords(n), BlockWords(n, k))
                     = Encrypt64Result(c, DstWords(n), BlockWords(n, k))
                /\ Decrypt64Result(w, DstWords(n), BlockWords(n, k))
                     = Decrypt64Result(c, DstWords(n), BlockWords(n, k))

(* NewCipher has returned a Threefish-1024 instance for 128 key bytes and a
   tweak; its second key word is the little-endian value of bytes 8 .. 15 *)
ConstructorsAgreeReached ==
  /\ call.op = "NewCipher" /\ call.err.isNil
  /\ Len(call.key.data) = 128 /\ ~call.tweak.isNil
  /\ c.internal.type = CIPHER_SIZE_1024
  /\ c.internal.expanedKey[2] = Uint64LE(call.key.data, 8)
  /\ c.internal.expanedKey[2] # c.internal.expanedKey[1]

(* C15: the cipher is stateless across calls with respect to key material.
   Encrypt, Decrypt, Encrypt64 and Decrypt64 leave the expanded key, the
   expanded tweak, the variant and the state size of the instance as they
   were before the call. *)
CryptKeepsKeyMaterial ==
  [][call'.op \in CryptOps =>
       /\ c'.internal.expanedKey = c.internal.expanedKey
       /\ c'.internal.expanedTweak = c.internal.expanedTweak
       /\ c'.internal.type = c.internal.type
       /\ c'.stateSize = c.stateSize]_vars

(* Encrypt has returned on a rekeyed Threefish-256 instance with a non-zero
   tweak, and has left its words in both temp buffers *)
CryptKeepsKeyMaterialReached ==
  /\ call.op = "Encrypt" /\ c.stateSize = CIPHER_SIZE_256
  /\ SubSeq(c.internal.expanedKey, 1, QWords(c)) = ReKey(QWords(c))
  /\ c.internal.expanedTweak[3] # Zero64
  /\ c.internal.tmpData1 = BytesToWords(call.src, QWords(c))
  /\ c.internal.tmpData2 = BytesToWords(call.dst, QWords(c))

----------------------------------------------------------------------------
(* Properties of one call run statement by statement *)

(* N of the call, and the length of one block in the elements of its array *)
EngN == QWords(eng.ci)
EngLen == IF eng.op \in ByteOps THEN 8 * EngN ELSE EngN

(* the block the call leaves in dst when src and dst are apart: the call on
   the values src and dst have at entry *)
EngApart ==
  LET src == SubSeq(eng.buf0, eng.s + 1, eng.s + EngLen)
      dst == SubSeq(eng.buf0, eng.d + 1, eng.d + EngLen)
  IN  CASE eng.op = "Encrypt" -> EncryptResult(eng.ci, dst, src)[2]
        [] eng.op = "Decrypt" -> DecryptResult(eng.ci, dst, src)[2]
        [] eng.op = "Encrypt64" -> Encrypt64Result(eng.ci, dst, src)
        [] eng.op = "Decrypt64" -> Decrypt64Result(eng.ci, dst, src)

(* dst and src share elements of the array *)
EngAliased == eng.s - eng.d < EngLen /\ eng.d - eng.s < EngLen

(* C12: aliasing is permitted.  When Encrypt, Decrypt, Encrypt64 or Decrypt64
   has run with dst the same slice as src, or a slice overlapping src, dst
   holds the block the call leaves there when dst and src are apart, and the
   array outside dst is as it was. *)
AliasingPermitted ==
  (eng.phase = "done" /\ EngAliased) =>
    /\ SubSeq(eng.buf, eng.d + 1, eng.d + EngLen) = EngApart
    /\ \A j \in 1..Len(eng.buf) :
         (j <= eng.d \/ j > eng.d + EngLen) => eng.buf[j] = eng.buf0[j]

(* Decrypt64 of Threefish-1024 has run with dst one word behind src and has
   changed the array *)
AliasingPermittedReached ==
  /\ eng.phase = "done" /\ eng.op = "Decrypt64"
  /\ eng.ci.internal.type = CIPHER_SIZE_1024
  /\ eng.s = 1 /\ eng.d = 0
  /\ eng.buf # eng.buf0

(* Encrypt of Threefish-256 has run on the all-zero block under the all-zero
   key and the all-zero tweak *)
ZeroVector ==
  /\ eng.phase = "done" /\ eng.op = "Encrypt"
  /\ eng.ci.internal.type = CIPHER_SIZE_256 /\ eng.ci.stateSize = CIPHER_SIZE_256
  /\ eng.ci.internal.expanedKey = <<Zero64, Zero64, Zero64, Zero64, KEY_SCHEDULE_CONST>>
  /\ eng.ci.internal.expanedTweak = Zeros(EXPANDED_TWEAK_SIZE)
  /\ SubSeq(eng.buf0, eng.s + 1, eng.s + EngLen) = [j \in 1..EngLen |-> 0]

(* C17 as stated: the known-answer vector.  The ciphertext of the all-zero
   block under the all-zero key and tweak of Threefish-256 begins with the
   bytes 84 DA E3. *)
KnownAnswer84DAE3 ==
  ZeroVector => SubSeq(eng.buf, eng.d + 1, eng.d + 3) = <<132, 218, 227>>

(* C17 amended: that ciphertext begins with the bytes 84 DA 2A. *)
KnownAnswer84DA2A ==
  ZeroVector => SubSeq(eng.buf, eng.d + 1, eng.d + 3) = <<132, 218, 42>>

(* the zero vector has been encrypted into a dst apart from src *)
KnownAnswerReached ==
  /\ ZeroVector /\ eng.d = 32
  /\ SubSeq(eng.buf, 1, 32) = [j \in 1..32 |-> 0]
  /\ SubSeq(eng.buf, 33, 64) # [j \in 1..32 |-> 0]

(* the call runs encrypt *)
EngEncrypting == eng.op \in {"Encrypt", "Encrypt64"}

(* the statement about to run adds a key word into word w of the block *)
KeyStep(w) ==
  /\ eng.phase = "run" /\ EngEncrypting
  /\ EngStmt[1] \in {"+=", "out"} /\ EngStmt[2] = w /\ HasKey(EngStmt[3])

(* the statement about to run is the rotate and xor of a MIX on word w *)
MixStep(w) ==
  /\ eng.phase = "run" /\ EngEncrypting
  /\ EngStmt[1] = "rotl^" /\ w \in {EngStmt[2], EngStmt[4]}

(* the rounds of the variant *)
Rounds(n) == IF n = 16 THEN 80 ELSE 72

(* C18: round and injection count.  Encryption takes every word of the block
   through exactly 72 rounds for N = 4 and N = 8 and 80 for N = 16.  A key
   word is added to a word only before a round d of that word with
   d mod 4 = 0, as the injection number d / 4 of that word, and in the stores
   to output after the last round, as the injection number R / 4: 19
   injections for N = 4 and 8, 21 for N = 16. *)
RoundsAndInjections ==
  EngEncrypting =>
    \A w \in 0..(EngN - 1) :
      /\ eng.phase \in {"store", "done"} =>
           /\ eng.mixes[w + 1] = Rounds(EngN)
           /\ eng.inj[w + 1] = (Rounds(EngN) \div 4) + 1
           /\ eng.inj[w + 1] = IF EngN = 16 THEN 21 ELSE 19
      /\ KeyStep(w) =>
           /\ eng.mixes[w + 1] % 4 = 0
           /\ eng.inj[w + 1] = eng.mixes[w + 1] \div 4
           /\ (EngStmt[1] = "out") = (eng.mixes[w + 1] = Rounds(EngN))
      /\ MixStep(w) => eng.mixes[w + 1] < Rounds(EngN)

(* encrypt of Threefish-1024 is done: 80 rounds and 21 injections on the
   last word *)
RoundsAndInjectionsReached ==
  /\ eng.phase = "done" /\ eng.op = "Encrypt64"
  /\ EngN = 16 /\ eng.mixes[16] = 80 /\ eng.inj[16] = 21

(* the sum of terms, zero for none *)
SumOrZero(tf, b, terms) ==
  IF Len(terms) = 0 THEN Zero64 ELSE Sum(tf, b, terms, Len(terms))

(* what a statement adding into word w starts from: b_w for +=, nothing for
   a store to output; and where its result is after the step *)
KeyStepBase(w) == IF EngStmt[1] = "+=" THEN eng.b[w + 1] ELSE Zero64
KeyStepResult(w) == IF EngStmt[1] = "+=" THEN eng'.b[w + 1] ELSE eng'.output[w + 1]

(* C19: subkey word rotation.  In the injection with cycle index s, the final
   one included, word i of the block has exactly the key word
   expandedKey[(s + i) mod (N+1)] added to it, next to the other terms of the
   statement; and every word has received the injection of a cycle when it
   enters a MIX of that cycle. *)
SubkeyRotation ==
  /\ [][\A w \in 0..(EngN - 1) :
          KeyStep(w) =>
            LET s == eng.mixes[w + 1] \div 4
                key == eng.ci.internal.expanedKey[((s + w) % (EngN + 1)) + 1]
                rest == SumOrZero(eng.ci.internal, eng.b, SelectSeq(EngStmt[3], NotKey))
            IN  /\ Len(SelectSeq(EngStmt[3], IsKey)) = 1
                /\ KeyStepResult(w) = Add64(Add64(KeyStepBase(w), rest), key)]_vars
  /\ [](\A w \in 0..(EngN - 1) :
          MixStep(w) => eng.inj[w + 1] = (eng.mixes[w + 1] \div 4) + 1)

(* Threefish-512 is about to store its last word to output with the key word
   of the final injection, s = 18 *)
SubkeyRotationReached ==
  /\ KeyStep(7) /\ EngN = 8
  /\ EngStmt[1] = "out" /\ eng.mixes[8] = 72
  /\ eng.ci.internal.expanedKey[((18 + 7) % 9) + 1] # Zero64

(* the terms of a sum that are neither tweak words nor literals *)
NotTweak(t) == t[1] \in {"b", "k"}

(* the tweak and counter addend of word w in the injection s, as C20 has it *)
TweakAddendOnOddWords(tf, n, s, w) ==
  CASE w = n - 3 -> tf.expanedTweak[(s % 3) + 1]
    [] w = n - 1 -> Add64(tf.expanedTweak[((s + 1) % 3) + 1], Word(s))
    [] OTHER -> Zero64

(* the tweak and counter addend of word w in the injection s *)
TweakAddend(tf, n, s, w) ==
  CASE w = n - 3 -> tf.expanedTweak[(s % 3) + 1]
    [] w = n - 2 -> tf.expanedTweak[((s + 1) % 3) + 1]
    [] w = n - 1 -> Word(s)
    [] OTHER -> Zero64

(* C20 as stated: tweak and counter placement.  In the injection with cycle
   index s word N-3 receives expandedTweak[s mod 3] and word N-1 receives
   expandedTweak[(s+1) mod 3] plus s, next to the key word; every other word,
   each even-indexed word among them, receives only its key word. *)
TweakOnOddWords ==
  [][\A w \in 0..(EngN - 1) :
       KeyStep(w) =>
         LET s == eng.mixes[w + 1] \div 4
             rest == SumOrZero(eng.ci.internal, eng.b, SelectSeq(EngStmt[3], NotTweak))
         IN  KeyStepResult(w) =
               Add64(Add64(KeyStepBase(w), rest),
                     TweakAddendOnOddWords(eng.ci.internal, EngN, s, w))]_vars

(* C20 amended: word N-3 receives expandedTweak[s mod 3], word N-2, the even
   word of the last pair, receives expandedTweak[(s+1) mod 3], and word N-1
   receives s; every other word receives only its key word. *)
TweakPlacement ==
  [][\A w \in 0..(EngN - 1) :
       KeyStep(w) =>
         LET s == eng.mixes[w + 1] \div 4
             rest == SumOrZero(eng.ci.internal, eng.b, SelectSeq(EngStmt[3], NotTweak))
         IN  KeyStepResult(w) =
               Add64(Add64(KeyStepBase(w), rest),
                     TweakAddend(eng.ci.internal, EngN, s, w))]_vars

(* Threefish-1024 is about to add the key word of the injection s = 7 into
   word 14 under a tweak whose words 0, 1 and 2 all differ *)
TweakPlacementReached ==
  /\ KeyStep(14) /\ EngN = 16 /\ eng.mixes[15] = 28
  /\ eng.ci.internal.expanedTweak[1] # eng.ci.internal.expanedTweak[2]
  /\ eng.ci.internal.expanedTweak[2] # eng.ci.internal.expanedTweak[3]
  /\ eng.ci.internal.expanedTweak[1] # eng.ci.internal.expanedTweak[3]
  /\ eng.ci.internal.expanedTweak[3] # Zero64

----------------------------------------------------------------------------
(* The rounds of one call *)

(* the function the call runs and the source line it is in *)
EngCode == CodeOf(eng.op, eng.ci.internal.type)
EngLine == EngCode[eng.pc[1]][eng.pc[2]]

(* the rotate statements of round d of encrypt, d counted from 0, as
   <<the word rotated, the rotation, the other word>>: the lines of a round
   follow one another, n/2 to a round and four rounds to a group *)
RowOf(type, n, d) ==
  LET code == CodeOf("Encrypt", type)
  IN  [p \in 1..(n \div 2) |->
         LET at == <<(d \div 4) + 1, (d % 4) * (n \div 2) + p>>
         IN  MixOf(code, <<at[1], at[2], Len(code[at[1]][at[2]])>>)]

(* the latest rotate statement the call has run, and its round counted from 1 *)
LastRound == Len(eng.rows)
LastMix == eng.rows[LastRound][Len(eng.rows[LastRound])]

(* the statement about to run adds (encrypt) or subtracts (decrypt) a word of
   the block into another *)
AddsWord == EngStmt[1] \in {"+=", "-="} /\ EngStmt[3][1][1] = "b"

(* C21: MIX and rotation schedule.  Every round of encrypt takes every word
   through one MIX on a pair (even, odd): even := even + odd, then
   odd := rotate_left(odd, r) XOR even; the rotations of round d are those of
   round d - 8, pair by pair, in all three variants.  Every round of decrypt
   undoes the MIXes of the encrypt round it mirrors, the last round first,
   with the same pairs and rotations: odd := rotate_right(even XOR odd, r),
   then even := even - odd. *)
MixSchedule ==
  /\ [](eng.phase \in {"run", "store", "done"} /\ LastRound > 0 =>
          /\ LastMix[1] % 2 = 1 /\ LastMix[3] % 2 = 0
          /\ Len(eng.rows[LastRound]) <= EngN \div 2
          /\ \A w \in 1..EngN : eng.mixes[w] \in {LastRound - 1, LastRound}
          /\ LastRound > 8 =>
               LastMix[2] = eng.rows[LastRound - 8][Len(eng.rows[LastRound])][2]
          /\ IF EngEncrypting
             THEN LastMix = RowOf(eng.ci.internal.type, EngN, LastRound - 1)
                              [Len(eng.rows[LastRound])]
             ELSE \E p \in 1..(EngN \div 2) :
                    LastMix = RowOf(eng.ci.internal.type, EngN, Rounds(EngN) - LastRound)[p])
  /\ [][eng.phase = "run" =>
          /\ EngStmt[1] = "rotl^" =>
               LET m == MixOf(EngCode, eng.pc)
               IN  /\ eng.pc[3] > 1
                   /\ EngLine[eng.pc[3] - 1][1] = "+="
                   /\ EngLine[eng.pc[3] - 1][2] = m[3]
                   /\ EngLine[eng.pc[3] - 1][3][1] = <<"b", m[1]>>
                   /\ eng'.b[m[1] + 1] = Xor64(RotL(eng.b[m[1] + 1], m[2]), eng.b[m[3] + 1])
          /\ EngStmt[1] = "rotr" =>
               LET m == MixOf(EngCode, eng.pc)
               IN  /\ eng.pc[3] < Len(EngLine)
                   /\ EngLine[eng.pc[3] + 1][1] = "-="
                   /\ EngLine[eng.pc[3] + 1][2] = m[3]
                   /\ EngLine[eng.pc[3] + 1][3][1] = <<"b", m[1]>>
                   /\ eng'.b[m[1] + 1] = RotR(Xor64(eng.b[m[3] + 1], eng.b[m[1] + 1]), m[2])
          /\ AddsWord =>
               LET even == EngStmt[2]
                   odd == EngStmt[3][1][2]
                   rest == SumOrZero(eng.ci.internal, eng.b, Tail(EngStmt[3]))
               IN  IF EngStmt[1] = "+="
                   THEN /\ eng.pc[3] < Len(EngLine)
                        /\ EngLine[eng.pc[3] + 1][1] = "rotl^"
                        /\ EngLine[eng.pc[3] + 1][2] = odd
                        /\ EngLine[eng.pc[3] + 1][4] = even
                        /\ eng'.b[even + 1] =
                             Add64(Add64(eng.b[even + 1], eng.b[odd + 1]), rest)
                   ELSE /\ eng.pc[3] > 1
                        /\ EngLine[eng.pc[3] - 1] = <<"rotr", odd, EngLine[eng.pc[3] - 1][3]>>
                        /\ eng'.b[even + 1] =
                             Sub64(Sub64(eng.b[even + 1], eng.b[odd + 1]), rest)]_vars

(* Decrypt of Threefish-1024 has run its 80 rounds of 8 pairs, the last MIX
   it undid the first MIX of encrypt *)
MixScheduleReached ==
  /\ eng.phase = "done" /\ eng.op = "Decrypt64" /\ EngN = 16
  /\ LastRound = 80 /\ Len(eng.rows[80]) = 8
  /\ eng.rows[80][8] = RowOf(CIPHER_SIZE_1024, 16, 0)[1]

(* the rotations of the round the call is in, in the order of the source lines *)
LastRow == [p \in 1..Len(eng.rows[LastRound]) |-> eng.rows[LastRound][p][2]]

(* the row of the table of rotations that round uses: the round of encrypt,
   counted from 0, modulo 8; decrypt runs the rounds of encrypt backwards *)
RowIndex == (IF EngEncrypting THEN LastRound - 1 ELSE Rounds(EngN) - LastRound) % 8

(* C22 as stated: rotations of one row.  Within any single round no two word
   pairs are rotated by the same amount. *)
RotationsDistinctInRow ==
  (eng.phase \in {"run", "store", "done"} /\ LastRound > 0) =>
    \A p, q \in 1..Len(LastRow) : p # q => LastRow[p] # LastRow[q]

(* C22 amended: every round rotates N/2 word pairs, each by an amount
   between 1 and 63; two pairs of one round are rotated by the same amount
   only in row 7 of Threefish-256 (32 and 32) and in rows 0 (8 twice) and 6
   (44 twice) of Threefish-1024. *)
RotationsPerRow ==
  (eng.phase \in {"run", "store", "done"} /\ LastRound > 0) =>
    /\ Len(LastRow) <= EngN \div 2
    /\ eng.phase # "run" => \A d \in 1..LastRound : Len(eng.rows[d]) = EngN \div 2
    /\ eng.phase # "run" => LastRound = Rounds(EngN)
    /\ \A p \in 1..Len(LastRow) : LastRow[p] \in 1..63
    /\ \A p, q \in 1..Len(LastRow) :
         (p # q /\ LastRow[p] = LastRow[q]) =>
           \/ EngN = 4 /\ RowIndex = 7 /\ LastRow[p] = 32
           \/ EngN = 16 /\ RowIndex = 0 /\ LastRow[p] = 8
           \/ EngN = 16 /\ RowIndex = 6 /\ LastRow[p] = 44

(* encrypt of Threefish-1024 has run the 8 MIXes of its round 6, two of them
   rotating by 44 *)
RotationsPerRowReached ==
  /\ eng.phase = "run" /\ EngEncrypting /\ EngN = 16
  /\ LastRound = 7 /\ Len(LastRow) = 8
  /\ LastRow[2] = 44 /\ LastRow[7] = 44

----------------------------------------------------------------------------
(* The generic loop of Threefish *)

(* the permutation of the words the second round of encrypt shows: the word
   at place i of the pairs of round 1, i counted from 0 *)
Permutation(type, n) ==
  [i \in 1..n |->
     LET m == RowOf(type, n, 1)[((i - 1) \div 2) + 1]
     IN  IF (i - 1) % 2 = 0 THEN m[3] ELSE m[1]]

(* word i of subkey s: the key word, the tweak word and the counter *)
Subkey(tf, n, s, i) ==
  Add64(tf.expanedKey[((s + i) % (n + 1)) + 1], TweakAddend(tf, n, s, i))

(* one round d of the generic loop on the words v: the subkey when d is a
   multiple of 4, MIX on the pairs (v[0], v[1]), (v[2], v[3]) .. with the
   rotations of row d mod 8, then the permutation *)
GenericRound(tf, n, v, d) ==
  LET e == <<>> \o [i \in 1..n |->
                      IF d % 4 = 0 THEN Add64(v[i], Subkey(tf, n, d \div 4, i - 1)) ELSE v[i]]
      row == RowOf(tf.type, n, d % 8)
      f == <<>> \o [i \in 1..n |->
                      LET j == (i - 1) \div 2
                          sum == Add64(e[2 * j + 1], e[2 * j + 2])
                      IN  IF i % 2 = 1 THEN sum
                          ELSE Xor64(RotL(e[2 * j + 2], row[j + 1][2]), sum)]
  IN  <<>> \o [i \in 1..n |-> f[Permutation(tf.type, n)[i] + 1]]

(* the rounds d .. r - 1 of the generic loop, then the last subkey *)
RECURSIVE GenericFrom(_, _, _, _, _)
GenericFrom(tf, n, v, d, r) ==
  IF d = r THEN <<>> \o [i \in 1..n |-> Add64(v[i], Subkey(tf, n, r \div 4, i - 1))]
  ELSE [x \in Seq(Word64) |-> GenericFrom(tf, n, x, d + 1, r)][GenericRound(tf, n, v, d)]

(* the block the call was given *)
EngInput ==
  IF eng.op \in ByteOps THEN eng.tmpin
  ELSE SubSeq(eng.buf0, eng.s + 1, eng.s + EngN)

(* C23: word permutation.  After the MIX step of every round of encrypt, not
   only before an injection, the words change pair places by one fixed
   permutation of the variant: the pair at a place of round d + 1 is the
   permutation of the pair at that place of round d, and for N = 4 the
   permutation is {0, 3, 2, 1}, the pairs (0,1), (2,3) becoming (0,3), (2,1).
   What the unrolled encrypt of each variant stores to output is what the
   generic loop gives: in every round the subkey when due, MIX on the pairs
   in place, then this permutation. *)
WordPermutation ==
  EngEncrypting =>
    LET pi == Permutation(eng.ci.internal.type, EngN)
    IN  /\ eng.phase \in {"entered", "run"} =>
             /\ {pi[i] : i \in 1..EngN} = 0..(EngN - 1)
             /\ EngN = 4 => pi = <<0, 3, 2, 1>>
        /\ (eng.phase = "run" /\ LastRound > 1) =>
             LET before == eng.rows[LastRound - 1][Len(eng.rows[LastRound])]
             IN  /\ LastMix[3] = pi[before[3] + 1]
                 /\ LastMix[1] = pi[before[1] + 1]
        /\ eng.phase = "store" =>
             SubSeq(eng.output, 1, EngN) =
               GenericFrom(eng.ci.internal, EngN, EngInput, 0, Rounds(EngN))

(* Encrypt64 of Threefish-512 has run on a block that is not zero and is about
   to return what the generic loop gives *)
WordPermutationReached ==
  /\ eng.phase = "done" /\ eng.op = "Encrypt64" /\ EngN = 8
  /\ EngInput # Zeros(8)
  /\ SubSeq(eng.output, 1, 8) = GenericFrom(eng.ci.internal, 8, EngInput, 0, 72)
  /\ Permutation(CIPHER_SIZE_512, 8) = <<2, 1, 4, 7, 6, 5, 0, 3>>

----------------------------------------------------------------------------
(* Arithmetic on uint64 *)

(* a < b as unsigned 64-bit numbers *)
Less64(a, b) ==
  \E i \in 1..4 : a[i] < b[i] /\ \A j \in (i + 1)..4 : a[j] = b[j]

(* 2^64 - 1 - a: what can be added to a without passing 2^64 - 1 *)
Room64(a) == <<W16 - 1 - a[1], W16 - 1 - a[2], W16 - 1 - a[3], W16 - 1 - a[4]>>

(* the statement about to run adds to or subtracts from word w of the block,
   or stores a sum to output[w] *)
Arithmetic == eng.phase = "run" /\ EngStmt[1] \in {"+=", "-=", "out"}

(* the terms of that statement, summed one after the other: the sums so far *)
PartialSums ==
  [n \in 1..Len(EngStmt[3]) |-> Sum(eng.ci.internal, eng.b, EngStmt[3], n)]

(* C24: all arithmetic is modulo 2^64.  Every sum of encrypt and of the
   subkey injections (block word, key word, tweak word, counter) and every
   difference of decrypt is the exact result reduced modulo 2^64: a sum is
   smaller than its first operand exactly when the exact sum passes 2^64 - 1,
   taking the addend back off gives the operand again, and a difference plus
   the subtrahend gives the minuend again, whether or not it went below
   zero.  No statement traps: the call goes on to the next statement and
   ends; and decrypt of what encrypt stored is the block encrypt was given,
   encrypt of what decrypt stored the block decrypt was given. *)
ModularArithmetic ==
  /\ [][Arithmetic =>
          LET w == EngStmt[2] + 1
              terms == EngStmt[3]
              total == PartialSums[Len(terms)]
          IN  /\ \A n \in 2..Len(terms) :
                   LET t == Term(eng.ci.internal, eng.b, terms[n])
                   IN  /\ Less64(PartialSums[n], PartialSums[n - 1])
                            <=> Less64(Room64(t), PartialSums[n - 1])
                       /\ Sub64(PartialSums[n], t) = PartialSums[n - 1]
              /\ EngStmt[1] = "+=" =>
                   /\ Less64(eng'.b[w], eng.b[w]) <=> Less64(Room64(total), eng.b[w])
                   /\ Sub64(eng'.b[w], total) = eng.b[w]
              /\ EngStmt[1] = "-=" =>
                   /\ Less64(eng.b[w], eng'.b[w]) <=> Less64(eng.b[w], total)
                   /\ Add64(eng'.b[w], total) = eng.b[w]
              /\ EngStmt[1] = "out" => eng'.output[w] = total
              /\ eng'.phase \in {"run", "store"} /\ eng'.n = eng.n + 1]_vars
  /\ [](eng.phase = "store" =>
          LET out == SubSeq(eng.output, 1, EngN)
          IN  IF EngEncrypting
              THEN decrypt(eng.ci.internal, out, Zeros(EngN)) = EngInput
              ELSE encrypt(eng.ci.internal, out, Zeros(EngN)) = EngInput)

(* encrypt is about to add a word of the block, a key word and a tweak word
   into a word of the block, and the exact sum passes 2^64 - 1 *)
ModularArithmeticReached ==
  /\ Arithmetic /\ EngEncrypting /\ EngStmt[1] = "+="
  /\ Len(EngStmt[3]) = 3 /\ EngStmt[3][3][1] = "t"
  /\ Less64(Room64(PartialSums[3]), eng.b[EngStmt[2] + 1])
  /\ Less64(Room64(Term(eng.ci.internal, eng.b, EngStmt[3][3])), PartialSums[2])

----------------------------------------------------------------------------
(* Rekeying *)

(* the ciphers the constructors give for the key words key and the tweak the
   instance holds now: NewCipher64 on the words, NewCipher on their bytes *)
FreshCiphers(key) ==
  LET tweak == Slice(SubSeq(c.internal.expanedTweak, 1, 2))
  IN  <<NewCipher64Result(key, tweak)[1],
        NewCipherResult(Slice(WordsToBytes(key.data)), tweak)[1]>>

(* C25: rekey is a full recomputation, independent of history.  When
   SetKey(K) with an N-word K has returned, after whatever calls came before,
   the expanded key is that of a cipher newly constructed with K, the tweak is
   untouched, and the instance encrypts and decrypts every block as a cipher
   newly constructed with K and the tweak of the instance does: the word form
   as both constructors' ciphers, the byte form as the cipher of the
   constructor that records the state size the instance has. *)
RekeyIsRecomputation ==
  (call.op = "SetKey" /\ Len(call.key.data) = QWords(c)) =>
    LET n == QWords(c)
        fresh == FreshCiphers(call.key)
        same == IF fresh[1].stateSize = c.stateSize THEN fresh[1] ELSE fresh[2]
    IN  /\ ~call.panic
        /\ \A i \in 1..2 :
             /\ ~fresh[i].isNil /\ fresh[i].internal.type = c.internal.type
             /\ c.internal.expanedKey = fresh[i].internal.expanedKey
             /\ c.internal.expanedTweak = fresh[i].internal.expanedTweak
             /\ \A k \in 1..NumBlocks :
                  /\ Encrypt64Result(c, DstWords(n), BlockWords(n, k))
                       = Encrypt64Result(fresh[i], DstWords(n), BlockWords(n, k))
                  /\ Decrypt64Result(c, DstWords(n), BlockWords(n, k))
                       = Decrypt64Result(fresh[i], DstWords(n), BlockWords(n, k))
        /\ same.stateSize = c.stateSize
        /\ \A k \in 1..NumBlocks :
             /\ EncryptResult(c, DstBytes(n), BlockBytes(n, k))[2]
                  = EncryptResult(same, DstBytes(n), BlockBytes(n, k))[2]
             /\ DecryptResult(c, DstBytes(n), BlockBytes(n, k))[2]
                  = DecryptResult(same, DstBytes(n), BlockBytes(n, k))[2]

(* SetKey has returned on a Threefish-512 instance that holds a tweak and has
   encrypted or decrypted bytes before, under another key *)
RekeyIsRecomputationReached ==
  /\ call.op = "SetKey" /\ ~call.panic /\ Len(call.key.data) = QWords(c)
  /\ c.internal.type = CIPHER_SIZE_512
  /\ c.internal.expanedTweak[1] # Zero64
  /\ c.internal.tmpData2 # Zeros(QWords(c))
  /\ SubSeq(c.internal.expanedKey, 1, QWords(c)) = ReKey(QWords(c))

----------------------------------------------------------------------------
(* Byte slices longer than one block *)

(* the slice with everything after its first n elements zeroed *)
FirstOnly(sl, n) == [j \in 1..Len(sl) |-> IF j <= n THEN sl[j] ELSE 0]

(* C26: the byte forms process only the first block.  When Encrypt or Decrypt
   has run on a src and a dst that reach beyond one block, dst holds what the
   call leaves there for the src with every byte after its first block
   zeroed, the bytes of dst after its first block are as they were, and the
   call has returned without an error or a panic. *)
ByteFormOneBlock ==
  (eng.phase = "done" /\ eng.op \in ByteOps) =>
    LET src == SliceFrom(eng.buf0, eng.s)
        dst == SliceFrom(eng.buf0, eng.d)
        cut == FirstOnly(src, EngLen)
    IN  /\ SliceFrom(eng.buf, eng.d) =
             IF eng.op = "Encrypt" THEN EncryptResult(eng.ci, dst, cut)[2]
             ELSE DecryptResult(eng.ci, dst, cut)[2]
        /\ \A j \in 1..Len(eng.buf) :
             j > eng.d + EngLen => eng.buf[j] = eng.buf0[j]

(* Encrypt of Threefish-512 has run with src and dst the same slice of two
   blocks, the second block not zero, and has changed the first block only *)
ByteFormOneBlockReached ==
  /\ eng.phase = "done" /\ eng.op = "Encrypt"
  /\ eng.ci.internal.type = CIPHER_SIZE_512 /\ eng.ci.stateSize = CIPHER_SIZE_512
  /\ eng.s = 0 /\ eng.d = 0 /\ Len(eng.buf) = 2 * EngLen
  /\ \E j \in (EngLen + 1)..Len(eng.buf) : eng.buf0[j] # 0
  /\ SubSeq(eng.buf, 1, EngLen) # SubSeq(eng.buf0, 1, EngLen)
  /\ SubSeq(eng.buf, EngLen + 1, 2 * EngLen) = SubSeq(eng.buf0, EngLen + 1, 2 * EngLen)

----------------------------------------------------------------------------
(* Control flow and the data *)

(* the locations of the statements of one function in the order of the
   source text: cycle j, line i, statement q *)
RECURSIVE LinesOf(_, _, _)
LinesOf(code, j, i) ==
  IF i > Len(code[j]) THEN <<>>
  ELSE [q \in 1..Len(code[j][i]) |-> <<j, i, q>>] \o LinesOf(code, j, i + 1)

RECURSIVE CyclesOf(_, _)
CyclesOf(code, j) ==
  IF j > Len(code) THEN <<>> ELSE LinesOf(code, j, 1) \o CyclesOf(code, j + 1)

(* per direction and variant, the locations a run goes through: they are
   taken from the text alone, no key, tweak or block enters them *)
Locations ==
  [op \in {"Encrypt64", "Decrypt64"}, type \in {CIPHER_SIZE_256, CIPHER_SIZE_512, CIPHER_SIZE_1024} |->
     CyclesOf(CodeOf(op, type), 1)]

EngLocations ==
  Locations[IF eng.op \in {"Encrypt", "Encrypt64"} THEN "Encrypt64" ELSE "Decrypt64",
            eng.ci.internal.type]

(* the words of b and of output a statement may write *)
WritesB(st) == IF st[1] \in {"+=", "-=", "rotl^", "rotr"} THEN {st[2] + 1} ELSE {}
WritesOutput(st) == IF st[1] = "out" THEN {st[2] + 1} ELSE {}

(* C27: no data-dependent control flow.  Whatever the key, the tweak and
   the block, the n-th statement a run of encrypt or decrypt of one variant
   executes is the n-th statement of the function's text, it writes no word
   of b or of output but the one its text names, the run ends after all the
   statements of the text, and the loop of the key expansion stores N key
   words for every key of the variant. *)
NoDataDependentControl ==
  [][eng.phase = "run" =>
       LET at == EngLocations[eng.n + 1]
           st == EngCode[at[1]][at[2]][at[3]]
       IN  /\ eng.pc = at
           /\ \A w \in 1..EngN : eng'.b[w] # eng.b[w] => w \in WritesB(st)
           /\ \A w \in 1..Len(eng.output) :
                eng'.output[w] # eng.output[w] => w \in WritesOutput(st)
           /\ eng'.n = eng.n + 1
           /\ IF eng.n + 1 = Len(EngLocations) THEN eng'.phase = "store"
              ELSE eng'.phase = "run" /\ eng'.pc = EngLocations[eng.n + 2]
           /\ setKeyLoop(SubSeq(eng.ci.internal.expanedKey, 1, EngN),
                         [i \in 1..(EngN + 1) |-> Zero64], KEY_SCHEDULE_CONST, 0)[3] = EngN]_vars

(* a run of encrypt256 under the all-zero key on a block that is not zero
   has come to the statement a run under the other key comes to as well *)
NoDataDependentControlReached ==
  /\ eng.phase = "run" /\ eng.op = "Encrypt64"
  /\ eng.ci.internal.type = CIPHER_SIZE_256
  /\ \A i \in 1..4 : eng.ci.internal.expanedKey[i] = Zero64
  /\ eng.buf0[1] # Zero64
  /\ eng.n = 100 /\ eng.pc = Locations["Encrypt64", CIPHER_SIZE_256][101]
  /\ \E w \in 1..4 : eng.b[w] # Zero64

----------------------------------------------------------------------------
(* The scanner of the known-answer file *)

(* the lines from..to of the file are those of one complete record: a header
   line, a Result line after it, and the one separator line as the last *)
CompleteRecord(file, from, to) ==
  /\ from <= to /\ to <= Len(file)
  /\ HasPrefix(file[to], "------")
  /\ \A j \in from..(to - 1) : ~HasPrefix(file[j], "------")
  /\ \E h \in from..to : /\ HasPrefix(file[h], ":Skein-")
                         /\ \E r \in (h + 1)..to : HasPrefix(file[r], "Result")

(* C28: fillResult delivers one complete record per call.  When fillResult
   has returned true, the lines it consumed are those of exactly one complete
   record up to and including its separator line; when it has returned false,
   no further line could be read; either way the scanner is in state Start. *)
OneRecordPerCall ==
  /\ kat.pc = "body" =>
       /\ CompleteRecord(kat.file, kat.from, kat.pos - 1)
       /\ kat.state = Start
  /\ kat.pc = "after" =>
       /\ ~CanRead(kat)
       /\ kat.pos = kat.from
       /\ kat.state = Start

----------------------------------------------------------------------------
(* The verdict of checkKATVectors *)

(* the records fillResult delivered, by their place in log: the Tree ones,
   the MAC ones and the normal ones, and whether the hash of a record differs
   from its expected result *)
TreeRecords == {i \in 1..Len(kat.log) : "Tree" \in kat.log[i].kr.restOfLine}
MacRecords == {i \in 1..Len(kat.log) : "MAC" \in kat.log[i].kr.restOfLine} \ TreeRecords
NormalRecords == (1..Len(kat.log)) \ (TreeRecords \cup MacRecords)
Mismatch(i) == Hash(kat.log[i].kr) # kat.log[i].kr.result

(* C29: the verdict of the known-answer check.  When checkKATVectors has
   returned false, the record delivered last is a normal one whose hash
   differs from its expected result, no normal record before it differed and
   no line was read after it; when it has returned true, no further line
   can be read and every normal record delivered matched.  Either way the
   records hashed are exactly the normal ones, and the Tree and the MAC
   records are counted. *)
KatVerdict ==
  kat.pc = "returned" =>
    /\ {kat.hashed[j] : j \in 1..Len(kat.hashed)} = NormalRecords
    /\ Len(kat.hashed) = Cardinality(NormalRecords)
    /\ kat.tree = Cardinality(TreeRecords)
    /\ kat.mac = Cardinality(MacRecords)
    /\ ~kat.ret =>
         /\ Len(kat.log) \in NormalRecords
         /\ Mismatch(Len(kat.log))
         /\ \A i \in NormalRecords \ {Len(kat.log)} : ~Mismatch(i)
         /\ kat.pos = kat.log[Len(kat.log)].to + 1
         /\ kat.normal = Cardinality(NormalRecords) - 1
    /\ kat.ret =>
         /\ ~CanRead(kat)
         /\ \A i \in NormalRecords : ~Mismatch(i)
         /\ kat.normal = Cardinality(NormalRecords)

(* checkKATVectors has returned false on a normal record with a wrong result
   that came after a Tree record, which it counted and did not hash *)
KatVerdictReached ==
  /\ kat.pc = "returned" /\ ~kat.ret
  /\ Len(kat.log) = 2 /\ kat.tree = 1 /\ kat.hashed = <<2>>
  /\ "Tree" \in kat.log[1].kr.restOfLine
  /\ kat.log[2].kr.msg = <<6>>
  /\ Hash(kat.log[2].kr) # kat.log[2].kr.result

----------------------------------------------------------------------------
(* SetKey and SetTweak that panic *)

(* C30: failed rebinds are atomic.  A SetKey given fewer than N key words and
   a SetTweak given a non-nil tweak of fewer than 2 words abort with the
   expanded key and the expanded tweak of the instance as they were before
   the call, so that both parities still hold. *)
FailedRebindAtomic ==
  [][(call'.op \in {"SetKey", "SetTweak"} /\ call'.panic) =>
       /\ c'.internal.expanedKey = c.internal.expanedKey
       /\ c'.internal.expanedTweak = c.internal.expanedTweak
       /\ c'.internal.expanedKey[QWords(c') + 1]
            = Xor64(KEY_SCHEDULE_CONST, XorAll(c'.internal.expanedKey, QWords(c')))
       /\ c'.internal.expanedTweak[3]
            = Xor64(c'.internal.expanedTweak[1], c'.internal.expanedTweak[2])]_vars
============================================================================
